---- MODULE Spec2Model ----
(***************************************************************************)
(* Verification model of pathfindLite: the Lua NavMesh tile installation   *)
(* (NavMesh.lua: addTile and the link assembly passes) and the A* corridor *)
(* search (NavMeshQuery.lua / DetourNavMeshQuery.cpp: findPath,            *)
(* getPathToNode) over the meshes that addTile builds.                     *)
(*                                                                         *)
(* Numbers.  Coordinates are integers.  The slab tests of the stitching    *)
(* pass are evaluated exactly on rationals (cross-multiplied).  Search     *)
(* positions, costs and totals are fixed-point values with POS_SCALE units *)
(* per world unit; dtVdist rounds the square root down.                    *)
(*                                                                         *)
(* A polygon reference is the number salt*2^48 + tile*2^20 + poly.  It is  *)
(* kept as two limbs <<hi, lo>> in base 2^20 (hi = ref div 2^20,           *)
(* lo = ref mod 2^20) because the model checker's integers are 32 bits.    *)
(***************************************************************************)
EXTENDS Integers, Sequences, FiniteSets, TLC

\* ------------------------------------------------------------------------
\* Program constants
\* ------------------------------------------------------------------------
DT_NAVMESH_MAGIC == 1145979222
DT_NAVMESH_VERSION == 7
MMAP_MAGIC == 1296908624
MMAP_VERSION == 8
DT_EXT_LINK == 32768
DT_TILE_BITS == 28
DT_POLY_BITS == 20
\* 0xffffffff, kept as its 32-bit two's complement value
DT_NULL_LINK == 0 - 1
\* link.side of an internal link (0xff)
INTERNAL_SIDE == 255

DT_SUCCESS == "SUCCESS"
DT_FAILURE == "FAILURE"
DT_PARTIAL_RESULT == "PARTIAL_RESULT"
DT_BUFFER_TOO_SMALL == "BUFFER_TOO_SMALL"
DT_OUT_OF_NODES == "OUT_OF_NODES"
DT_INVALID_PARAM == "INVALID_PARAM"

DT_NODE_OPEN == 1
DT_NODE_CLOSED == 2

\* ------------------------------------------------------------------------
\* Arithmetic helpers
\* ------------------------------------------------------------------------
dtMax(a, b) == IF a > b THEN a ELSE b
dtMin(a, b) == IF a < b THEN a ELSE b
dtAbs(a) == IF a < 0 THEN 0 - a ELSE a

RECURSIVE Pow2(_)
Pow2(n) == IF n = 0 THEN 1 ELSE 2 * Pow2(n - 1)

DT_TILE_SHIFT == Pow2(DT_POLY_BITS)
DT_TILE_MASK1 == Pow2(DT_TILE_BITS)

nextPow2(v) ==
  IF v <= 1 THEN 1
  ELSE CHOOSE p \in {Pow2(k) : k \in 0..16} :
         p >= v /\ \A q \in {Pow2(k) : k \in 0..16} : q >= v => p <= q

dtOppositeTile(side) == (side + 4) % 8

\* floor of the square root, by bisection on [lo, hi)
RECURSIVE ISqrtIn(_, _, _)
ISqrtIn(n, lo, hi) ==
  IF hi - lo <= 1 THEN lo
  ELSE LET mid == (lo + hi) \div 2
       IN IF mid * mid <= n THEN ISqrtIn(n, mid, hi) ELSE ISqrtIn(n, lo, mid)
ISqrt(n) == ISqrtIn(n, 0, 32768)

\* ------------------------------------------------------------------------
\* Poly ref encoding/decoding (two limbs in base 2^DT_POLY_BITS)
\* ------------------------------------------------------------------------
NullRef == <<0, 0>>

\* ref = salt * 2^(POLY+TILE) + it * 2^POLY + ip
encodePolyId(salt, it, ip) ==
  <<salt * DT_TILE_MASK1 + it + (ip \div DT_TILE_SHIFT), ip % DT_TILE_SHIFT>>

decodePolyId(ref) ==
  LET ip == ref[2]
      rest == ref[1]
      it == rest % DT_TILE_MASK1
      salt == (rest - it) \div DT_TILE_MASK1
  IN [salt |-> salt, it |-> it, ip |-> ip]

\* base + k on a two-limb ref
RefAdd(ref, k) ==
  <<ref[1] + ((ref[2] + k) \div DT_TILE_SHIFT), (ref[2] + k) % DT_TILE_SHIFT>>

\* ------------------------------------------------------------------------
\* Tile hash (spatial lookup).  H1 and H2 are reduced modulo 256, which
\* leaves n % (mask+1) unchanged for every mask < 256 (mask+1 divides 2^32).
\* ------------------------------------------------------------------------
H1_LOW == 67
H2_LOW == 65
computeTileHash(x, y, mask) ==
  ((H1_LOW * (x % (mask + 1))) + (H2_LOW * (y % (mask + 1)))) % (mask + 1)

\* ------------------------------------------------------------------------
\* Slab helpers for connectExtLinks.  A vertex is <<x, y, z>>.
\* ------------------------------------------------------------------------
getSlabCoord(va, side) ==
  IF side = 0 \/ side = 4 THEN va[1]
  ELSE IF side = 2 \/ side = 6 THEN va[3]
  ELSE 0

\* returns <<bmin, bmax>>, each <<coordinate along the edge, height>>
calcSlabEndPoints(va, vb, side) ==
  IF side = 0 \/ side = 4 THEN
    IF va[3] < vb[3] THEN << <<va[3], va[2]>>, <<vb[3], vb[2]>> >>
    ELSE << <<vb[3], vb[2]>>, <<va[3], va[2]>> >>
  ELSE IF side = 2 \/ side = 6 THEN
    IF va[1] < vb[1] THEN << <<va[1], va[2]>>, <<vb[1], vb[2]>> >>
    ELSE << <<vb[1], vb[2]>>, <<va[1], va[2]>> >>
  ELSE << <<0, 0>>, <<0, 0>> >>

\* overlapSlabs(amin, amax, bmin, bmax, px = 0.01, py): lengths are taken in
\* hundredths so that px is the integer 1; heights are multiplied through by
\* the two edge lengths da, db so that the slopes ad, bd need no division.
overlapSlabs(amin, amax, bmin, bmax, py) ==
  LET minx == 100 * dtMax(amin[1], bmin[1]) + 1
      maxx == 100 * dtMin(amax[1], bmax[1]) - 1
  IN IF minx > maxx THEN FALSE
     ELSE
       LET da == amax[1] - amin[1]
           db == bmax[1] - bmin[1]
           s == 100 * da * db
           aminy == s * amin[2] + (amax[2] - amin[2]) * db * (minx - 100 * amin[1])
           amaxy == s * amin[2] + (amax[2] - amin[2]) * db * (maxx - 100 * amin[1])
           bminy == s * bmin[2] + (bmax[2] - bmin[2]) * da * (minx - 100 * bmin[1])
           bmaxy == s * bmin[2] + (bmax[2] - bmin[2]) * da * (maxx - 100 * bmin[1])
           dmin == bminy - aminy
           dmax == bmaxy - amaxy
           thr == dtAbs(py * 2) * s
       IN IF (dmin < 0 /\ dmax > 0) \/ (dmin > 0 /\ dmax < 0) THEN TRUE
          ELSE dtAbs(dmin) <= thr \/ dtAbs(dmax) <= thr

\* math.floor(dtClamp(num/den, 0, 1) * 255 + 0.5), den # 0
QuantizeT(num, den) ==
  LET n == IF den < 0 THEN 0 - num ELSE num
      d == dtAbs(den)
      c == IF n < 0 THEN 0 ELSE IF n > d THEN d ELSE n
  IN (510 * c + d) \div (2 * d)

\* ------------------------------------------------------------------------
\* NavMesh data model
\*   slot  : [salt, next, header, tileIndex, verts, polys, links, linksFreeList]
\*   header: NoHeader (free slot) or [x, y, layer, polyCount, maxLinkCount,
\*           walkableClimb]
\*   poly  : [firstLink, verts, neis, flags, vertCount, areaAndtype]
\*           (verts are 0-based vertex indices, neis[j] belongs to edge j-1)
\*   link  : [ref, next, edge, side, bmin, bmax]
\*   slot.next is the free-list link of a free slot and the hash-chain link
\*   of an installed one; 0 stands for nil.
\* ------------------------------------------------------------------------
NoHeader == [none |-> TRUE]

Vert(tile, vi) == tile.verts[vi + 1]

getPolyRefBase(tile) == encodePolyId(tile.salt, tile.tileIndex, 0)

\* allocLink that hands out the head of the free list without unlinking it
allocLink_NoAdvance(tile) ==
  IF tile.linksFreeList = DT_NULL_LINK
  THEN [idx |-> DT_NULL_LINK, tile |-> tile, err |-> FALSE]
  ELSE IF tile.linksFreeList + 1 \notin DOMAIN tile.links
  THEN [idx |-> DT_NULL_LINK, tile |-> tile, err |-> TRUE]
  ELSE [idx |-> tile.linksFreeList, tile |-> tile, err |-> FALSE]

\* allocLink: [idx, tile, err].  err stands for the Lua runtime error raised
\* when linksFreeList names a link that the pool does not hold.
allocLink(tile) ==
  IF tile.linksFreeList = DT_NULL_LINK
  THEN [idx |-> DT_NULL_LINK, tile |-> tile, err |-> FALSE]
  ELSE LET link == tile.linksFreeList
       IN IF link + 1 \notin DOMAIN tile.links
          THEN [idx |-> DT_NULL_LINK, tile |-> tile, err |-> TRUE]
          ELSE [idx |-> link,
                tile |-> [tile EXCEPT !.linksFreeList = tile.links[link + 1].next],
                err |-> FALSE]

\* The allocate-and-prepend block shared by the link passes: take a link
\* from the pool, fill it, push it on the chain of polygon pi (1-based).
\* A full pool drops the link.  st is [tile, err].
PushLink(st, pi, ref, edge, side, bmin, bmax) ==
  IF st.err THEN st
  ELSE LET a == allocLink(st.tile)
       IN IF a.err THEN [tile |-> st.tile, err |-> TRUE]
          ELSE IF a.idx = DT_NULL_LINK THEN st
          ELSE LET lk == [ref |-> ref, next |-> a.tile.polys[pi].firstLink,
                          edge |-> edge, side |-> side,
                          bmin |-> bmin, bmax |-> bmax]
               IN [tile |-> [a.tile EXCEPT !.links[a.idx + 1] = lk,
                                           !.polys[pi].firstLink = a.idx],
                   err |-> FALSE]

\* findConnectingPolys(va, vb, tile, side): the sequence of [ref, lo, hi],
\* one entry per polygon of tile that has an edge marked EXT|side whose slab
\* overlaps the slab of edge va-vb; polygons in index order.
EdgeConnects(va, vb, tile, side, poly, j) ==
  /\ poly.neis[j] = DT_EXT_LINK + side
  /\ LET vc == Vert(tile, poly.verts[j])
         vd == Vert(tile, poly.verts[(j % poly.vertCount) + 1])
         a == calcSlabEndPoints(va, vb, side)
         b == calcSlabEndPoints(vc, vd, side)
     IN /\ getSlabCoord(va, side) = getSlabCoord(vc, side)
        /\ overlapSlabs(a[1], a[2], b[1], b[2], tile.header.walkableClimb)

RECURSIVE findConnectingPolysFrom(_, _, _, _, _)
findConnectingPolysFrom(va, vb, tile, side, k) ==
  IF k >= tile.header.polyCount THEN <<>>
  ELSE LET poly == tile.polys[k + 1]
           hits == {j \in 1..poly.vertCount : EdgeConnects(va, vb, tile, side, poly, j)}
           rest == findConnectingPolysFrom(va, vb, tile, side, k + 1)
       IN IF hits = {} THEN rest
          ELSE LET j == CHOOSE h \in hits : \A g \in hits : h <= g
                   vc == Vert(tile, poly.verts[j])
                   vd == Vert(tile, poly.verts[(j % poly.vertCount) + 1])
                   a == calcSlabEndPoints(va, vb, side)
                   b == calcSlabEndPoints(vc, vd, side)
               IN << [ref |-> RefAdd(getPolyRefBase(tile), k),
                      lo |-> dtMax(a[1][1], b[1][1]),
                      hi |-> dtMin(a[2][1], b[2][1])] >> \o rest

findConnectingPolys(va, vb, tile, side) ==
  findConnectingPolysFrom(va, vb, tile, side, 0)

\* connectIntLinks(tile): st is [tile, err]
RECURSIVE connectIntLinksEdge(_, _, _)
connectIntLinksEdge(st, k, j) ==
  IF st.err \/ j < 0 THEN st
  ELSE LET nei == st.tile.polys[k + 1].neis[j + 1]
           st2 == IF nei # 0 /\ nei < DT_EXT_LINK
                  THEN PushLink(st, k + 1,
                                RefAdd(getPolyRefBase(st.tile), nei - 1),
                                j, INTERNAL_SIDE, 0, 0)
                  ELSE st
       IN connectIntLinksEdge(st2, k, j - 1)

RECURSIVE connectIntLinksPoly(_, _)
connectIntLinksPoly(st, k) ==
  IF st.err \/ k >= st.tile.header.polyCount THEN st
  ELSE LET cleared == [st EXCEPT !.tile.polys[k + 1].firstLink = DT_NULL_LINK]
           poly == st.tile.polys[k + 1]
           st2 == IF poly.areaAndtype \div 64 = 1 THEN cleared
                  ELSE connectIntLinksEdge(cleared, k, poly.vertCount - 1)
       IN connectIntLinksPoly(st2, k + 1)

connectIntLinks(tile) == connectIntLinksPoly([tile |-> tile, err |-> FALSE], 0)

\* connectExtLinks(tile, target, side): links of tile toward target
RECURSIVE connectExtLinksCon(_, _, _, _, _, _, _, _)
connectExtLinksCon(st, k, j, dir, va, vb, cons, kk) ==
  IF st.err \/ kk > Len(cons) THEN st
  ELSE LET c == cons[kk]
           ax == IF dir = 0 \/ dir = 4 THEN 3 ELSE 1
           quant == dir \in {0, 2, 4, 6}
           q1 == IF quant THEN QuantizeT(c.lo - va[ax], vb[ax] - va[ax]) ELSE 0
           q2 == IF quant THEN QuantizeT(c.hi - va[ax], vb[ax] - va[ax]) ELSE 0
           st2 == PushLink(st, k + 1, c.ref, j - 1, dir,
                           dtMin(q1, q2), dtMax(q1, q2))
       IN connectExtLinksCon(st2, k, j, dir, va, vb, cons, kk + 1)

RECURSIVE connectExtLinksEdge(_, _, _, _, _)
connectExtLinksEdge(st, target, side, k, j) ==
  IF st.err \/ j > st.tile.polys[k + 1].vertCount THEN st
  ELSE LET poly == st.tile.polys[k + 1]
           nei == poly.neis[j]
           dir == nei % 256
           st2 == IF nei >= DT_EXT_LINK /\ (side = 0 - 1 \/ dir = side)
                  THEN LET va == Vert(st.tile, poly.verts[j])
                           vb == Vert(st.tile, poly.verts[(j % poly.vertCount) + 1])
                           cons == findConnectingPolys(va, vb, target, dtOppositeTile(dir))
                       IN connectExtLinksCon(st, k, j, dir, va, vb, cons, 1)
                  ELSE st
       IN connectExtLinksEdge(st2, target, side, k, j + 1)

RECURSIVE connectExtLinksPoly(_, _, _, _)
connectExtLinksPoly(st, target, side, k) ==
  IF st.err \/ k >= st.tile.header.polyCount THEN st
  ELSE connectExtLinksPoly(connectExtLinksEdge(st, target, side, k, 1),
                           target, side, k + 1)

connectExtLinks(tile, target, side) ==
  connectExtLinksPoly([tile |-> tile, err |-> FALSE], target, side, 0)

\* ------------------------------------------------------------------------
\* NavMesh object: nav = [tiles, nextFree, posLookup]
\* ------------------------------------------------------------------------
\* dtNavMeshParams.maxTiles of the mesh under test
MaxTiles == 3

TileLutMask == nextPow2(dtMax(1, MaxTiles \div 4)) - 1

FreeSlot(idx) ==
  [salt |-> 1, next |-> IF idx < MaxTiles THEN idx + 1 ELSE 0,
   header |-> NoHeader, tileIndex |-> idx - 1,
   verts |-> <<>>, polys |-> <<>>, links |-> <<>>, linksFreeList |-> 0]

NewNavMesh ==
  [tiles |-> [idx \in 1..MaxTiles |-> FreeSlot(idx)],
   nextFree |-> IF MaxTiles >= 1 THEN 1 ELSE 0,
   posLookup |-> [h \in 0..TileLutMask |-> 0]]

\* the hash chain that starts at slot index i, as a sequence of slot indices
RECURSIVE ChainFrom(_, _, _)
ChainFrom(nm, i, fuel) ==
  IF i = 0 \/ fuel = 0 THEN <<>>
  ELSE <<i>> \o ChainFrom(nm, nm.tiles[i].next, fuel - 1)

\* getTileAt that looks at the head of the hash chain only
getTileAt_HeadOnly(nm, x, y, layer) ==
  LET i == nm.posLookup[computeTileHash(x, y, TileLutMask)]
  IN IF /\ i # 0
        /\ nm.tiles[i].header # NoHeader
        /\ nm.tiles[i].header.x = x
        /\ nm.tiles[i].header.y = y
        /\ nm.tiles[i].header.layer = layer
     THEN i ELSE 0

getTileAt(nm, x, y, layer) ==
  LET chain == ChainFrom(nm, nm.posLookup[computeTileHash(x, y, TileLutMask)], MaxTiles)
      Match(i) == /\ nm.tiles[i].header # NoHeader
                  /\ nm.tiles[i].header.x = x
                  /\ nm.tiles[i].header.y = y
                  /\ nm.tiles[i].header.layer = layer
      found == SelectSeq(chain, Match)
  IN IF found = <<>> THEN 0 ELSE found[1]

getTilesAt(nm, x, y) ==
  LET chain == ChainFrom(nm, nm.posLookup[computeTileHash(x, y, TileLutMask)], MaxTiles)
      Match(i) == /\ nm.tiles[i].header # NoHeader
                  /\ nm.tiles[i].header.x = x
                  /\ nm.tiles[i].header.y = y
  IN SelectSeq(chain, Match)

getNeighbourTilesAt(nm, x, y, side) ==
  LET nx == IF side \in {0, 1, 7} THEN x + 1
            ELSE IF side \in {3, 4, 5} THEN x - 1 ELSE x
      ny == IF side \in {1, 2, 3} THEN y + 1
            ELSE IF side \in {5, 6, 7} THEN y - 1 ELSE y
  IN getTilesAt(nm, nx, ny)

isValidPolyRef(nm, ref) ==
  IF ref = NullRef THEN FALSE
  ELSE LET d == decodePolyId(ref)
           it == d.it + 1
       IN /\ it <= MaxTiles
          /\ nm.tiles[it].salt = d.salt
          /\ nm.tiles[it].header # NoHeader
          /\ d.ip < nm.tiles[it].header.polyCount

\* slots that hold a tile
Installed(nm) == {i \in 1..MaxTiles : nm.tiles[i].header # NoHeader}

\* the ref of polygon k (1-based) of slot i
PolyRefOf(nm, i, k) == RefAdd(getPolyRefBase(nm.tiles[i]), k - 1)

\* getTileAndPolyByRefUnsafe: the slot index and 1-based polygon index
TileOfRef(ref) == decodePolyId(ref).it + 1
PolyOfRef(ref) == decodePolyId(ref).ip + 1

\* ------------------------------------------------------------------------
\* addTile.  A blob is the decoded content of the byte string:
\*   [magic, mmapVer, navMagic, navVersion, x, y, layer, maxLinkCount,
\*    walkableClimb, verts, polys]
\* The blobs carry no off-mesh connections (offMeshConCount = 0), so that
\* baseOffMeshLinks and connectExtOffMeshLinks have nothing to do.
\* ------------------------------------------------------------------------
BlankLink == [ref |-> NullRef, next |-> 0, edge |-> 0, side |-> 0,
              bmin |-> 0, bmax |-> 0]

\* parseTileData: the tile table, or the error string
parseTileData(blob) ==
  IF blob.navMagic # DT_NAVMESH_MAGIC THEN [ok |-> FALSE, err |-> "wrong magic"]
  ELSE IF blob.navVersion # DT_NAVMESH_VERSION
  THEN [ok |-> FALSE, err |-> "wrong version"]
  ELSE [ok |-> TRUE, err |-> "",
        tile |-> [header |-> [x |-> blob.x, y |-> blob.y, layer |-> blob.layer,
                              polyCount |-> Len(blob.polys),
                              maxLinkCount |-> blob.maxLinkCount,
                              walkableClimb |-> blob.walkableClimb],
                  salt |-> 1, linksFreeList |-> 0,
                  verts |-> blob.verts, polys |-> blob.polys,
                  links |-> [k \in 1..blob.maxLinkCount |-> BlankLink]]]

\* "Build links free list": [tile, err]; links[maxLinkCount] does not exist
\* when maxLinkCount = 0 and indexing it raises a runtime error.
BuildLinksFreeList(tile) ==
  LET n == tile.header.maxLinkCount
      t0 == [tile EXCEPT !.linksFreeList = 0]
  IN IF n \notin DOMAIN tile.links THEN [tile |-> t0, err |-> TRUE]
     ELSE [tile |-> [t0 EXCEPT !.links =
                       [k \in 1..n |-> [t0.links[k] EXCEPT
                           !.next = IF k = n THEN DT_NULL_LINK ELSE k]]],
           err |-> FALSE]

\* The stitching work list of addTile for the tile in slot ti: the other
\* layers of its cell with side -1, then the tiles of the eight neighbour
\* cells; each entry is [nb, side, back].
RECURSIVE NeighbourWork(_, _, _)
NeighbourWork(nm, ti, sideDir) ==
  IF sideDir > 7 THEN <<>>
  ELSE LET hdr == nm.tiles[ti].header
           neis == getNeighbourTilesAt(nm, hdr.x, hdr.y, sideDir)
       IN [i \in 1..Len(neis) |->
             [nb |-> neis[i], side |-> sideDir, back |-> dtOppositeTile(sideDir)]]
          \o NeighbourWork(nm, ti, sideDir + 1)

StitchWork(nm, ti) ==
  LET hdr == nm.tiles[ti].header
      sameCell == SelectSeq(getTilesAt(nm, hdr.x, hdr.y), LAMBDA i : i # ti)
  IN [i \in 1..Len(sameCell) |->
        [nb |-> sameCell[i], side |-> 0 - 1, back |-> 0 - 1]]
     \o NeighbourWork(nm, ti, 0)

\* the mesh with the outcome st = [tile, err] of a link pass stored in slot
\* i: [nm, err]
PutTile(nm, i, st) == [nm |-> [nm EXCEPT !.tiles[i] = st.tile], err |-> st.err]

\* second half of a work entry: connectExtLinks(nb, tileSlot, back)
StitchBack(ms, ti, w) ==
  IF ms.err THEN ms
  ELSE PutTile(ms.nm, w.nb,
               connectExtLinks(ms.nm.tiles[w.nb], ms.nm.tiles[ti], w.back))

\* one work entry: connectExtLinks(tileSlot, nb, side) and then
\* connectExtLinks(nb, tileSlot, back).  ms is [nm, err].
StitchOne(ms, ti, w) ==
  IF ms.err THEN ms
  ELSE StitchBack(PutTile(ms.nm, ti,
                          connectExtLinks(ms.nm.tiles[ti], ms.nm.tiles[w.nb], w.side)),
                  ti, w)

RECURSIVE StitchAll(_, _, _, _)
StitchAll(ms, ti, work, i) ==
  IF ms.err \/ i > Len(work) THEN ms
  ELSE StitchAll(StitchOne(ms, ti, work[i]), ti, work, i + 1)

\* addTile from the slot allocation to the links free list: the slot is
\* taken off the free list, filled from the parsed tile and entered in the
\* position lookup, then its free list is built.  [nm, err]; the tile is in
\* slot nm.nextFree of the mesh given.
ClaimSlot(nm, tile) ==
  LET ti == nm.nextFree
      h == computeTileHash(tile.header.x, tile.header.y, TileLutMask)
      slot == [salt |-> tile.salt,
               next |-> nm.posLookup[h],
               header |-> tile.header,
               tileIndex |-> nm.tiles[ti].tileIndex,
               verts |-> tile.verts,
               polys |-> tile.polys,
               links |-> tile.links,
               linksFreeList |-> tile.linksFreeList]
  IN PutTile([tiles |-> nm.tiles,
              nextFree |-> nm.tiles[ti].next,
              posLookup |-> [nm.posLookup EXCEPT ![h] = ti]],
             ti, BuildLinksFreeList(slot))

\* addTile after the free list: internal links, then the stitching
LinkInside(ms, ti) ==
  IF ms.err THEN ms ELSE PutTile(ms.nm, ti, connectIntLinks(ms.nm.tiles[ti]))

LinkOutside(ms, ti) ==
  IF ms.err THEN ms ELSE StitchAll(ms, ti, StitchWork(ms.nm, ti), 1)

\* what addTile hands back once the slot is claimed
AddOutcome(ms) ==
  IF ms.err THEN [nm |-> ms.nm, res |-> "error", msg |-> "index nil"]
  ELSE [nm |-> ms.nm, res |-> "ok", msg |-> ""]

\* addTile(data): [nm, res, msg] with res "ok" (returns true), "fail"
\* (returns false, msg) or "error" (a runtime error is raised)
addTile(nm, blob) ==
  IF blob.magic # MMAP_MAGIC THEN [nm |-> nm, res |-> "fail", msg |-> "bad mmap magic"]
  ELSE IF blob.mmapVer # MMAP_VERSION
  THEN [nm |-> nm, res |-> "fail", msg |-> "bad mmap version"]
  ELSE IF ~parseTileData(blob).ok
  THEN [nm |-> nm, res |-> "fail", msg |-> parseTileData(blob).err]
  ELSE IF getTileAt(nm, blob.x, blob.y, blob.layer) # 0
  THEN [nm |-> nm, res |-> "fail", msg |-> "tile already occupied"]
  ELSE IF nm.nextFree = 0
  THEN [nm |-> nm, res |-> "fail", msg |-> "no free tile slots"]
  ELSE AddOutcome(LinkOutside(LinkInside(ClaimSlot(nm, parseTileData(blob).tile),
                                         nm.nextFree),
                              nm.nextFree))

\* ------------------------------------------------------------------------
\* Tile blobs offered to addTile.  Cells are 2 x 2; side 0 is x+, 2 is z+,
\* 4 is x-, 6 is z-.  A polygon's vertices run x-, z+, x+, z- around it: the
\* order in which dtIntersectSegmentPoly2D finds a point inside (n >= 0 on
\* every edge) and the funnel of findStraightPath finds v0 of a portal on its
\* left.
\* ------------------------------------------------------------------------
Ext(side) == DT_EXT_LINK + side

MkPoly(vs, ns, fl, area) ==
  [firstLink |-> 0, verts |-> vs, neis |-> ns, flags |-> fl,
   vertCount |-> Len(vs), areaAndtype |-> area]

MkBlob(x, y, layer, maxLinks, climb, vs, ps) ==
  [magic |-> MMAP_MAGIC, mmapVer |-> MMAP_VERSION,
   navMagic |-> DT_NAVMESH_MAGIC, navVersion |-> DT_NAVMESH_VERSION,
   x |-> x, y |-> y, layer |-> layer, maxLinkCount |-> maxLinks,
   walkableClimb |-> climb, verts |-> vs, polys |-> ps]

\* one square polygon filling the cell (cx, cy) at height h
SquareVerts(cx, cy, h) ==
  << <<2 * cx, h, 2 * cy>>, <<2 * cx + 2, h, 2 * cy>>,
     <<2 * cx + 2, h, 2 * cy + 2>>, <<2 * cx, h, 2 * cy + 2>> >>
SquarePolys(fl, area) ==
  << MkPoly(<<0, 3, 2, 1>>, <<Ext(4), Ext(2), Ext(0), Ext(6)>>, fl, area) >>

\* two polygons splitting the cell (cx, cy) into the rows z < 2cy+1 < z
RowsVerts(cx, cy, h) ==
  << <<2 * cx, h, 2 * cy>>, <<2 * cx + 2, h, 2 * cy>>,
     <<2 * cx + 2, h, 2 * cy + 1>>, <<2 * cx, h, 2 * cy + 1>>,
     <<2 * cx + 2, h, 2 * cy + 2>>, <<2 * cx, h, 2 * cy + 2>> >>
RowsPolys(fl0, fl1, area0, area1) ==
  << MkPoly(<<0, 3, 2, 1>>, <<Ext(4), 2, Ext(0), Ext(6)>>, fl0, area0),
     MkPoly(<<3, 5, 4, 2>>, <<Ext(4), Ext(2), Ext(0), 1>>, fl1, area1) >>

BlobRows == MkBlob(0, 0, 0, 6, 1, RowsVerts(0, 0, 0), RowsPolys(1, 1, 0, 1))
BlobEast == MkBlob(1, 0, 0, 4, 1, SquareVerts(1, 0, 0), SquarePolys(1, 0))
BlobNorth == MkBlob(0, 1, 0, 4, 1, SquareVerts(0, 1, 0), SquarePolys(3, 0))
BlobFar == MkBlob(3, 3, 0, 4, 1, SquareVerts(3, 3, 0), SquarePolys(1, 0))
\* a second layer over the east cell, one unit higher, that tolerates no climb
BlobEastUp == MkBlob(1, 0, 1, 4, 0, SquareVerts(1, 0, 1), SquarePolys(1, 0))
\* the east cell with a pool of one link
BlobEastTight == MkBlob(1, 0, 0, 1, 1, SquareVerts(1, 0, 0), SquarePolys(1, 0))
\* another tile for the cell (0, 0, 0)
BlobRowsAgain == MkBlob(0, 0, 0, 4, 1, SquareVerts(0, 0, 0), SquarePolys(1, 0))
\* a header that declares an empty link pool
BlobNoLinks == MkBlob(0, 1, 0, 0, 1, SquareVerts(0, 1, 0), SquarePolys(1, 0))
\* the two rows with a pool of one link
BlobRowsTight == MkBlob(0, 0, 0, 1, 1, RowsVerts(0, 0, 0), RowsPolys(1, 1, 0, 1))
\* a square whose edge 2 names polygon 6 of a tile of one polygon
BlobStrayNei ==
  MkBlob(0, 1, 0, 4, 1, SquareVerts(0, 1, 0),
         << MkPoly(<<0, 3, 2, 1>>, <<Ext(4), Ext(2), 7, Ext(6)>>, 1, 0) >>)
BlobBadMagic == [BlobFar EXCEPT !.magic = 0]
BlobBadMmapVersion == [BlobFar EXCEPT !.mmapVer = 7]
BlobBadNavMagic == [BlobFar EXCEPT !.navMagic = 0]
BlobBadNavVersion == [BlobFar EXCEPT !.navVersion = 6]

Blobs == {BlobRows, BlobEast, BlobNorth, BlobFar, BlobEastUp, BlobEastTight,
          BlobRowsAgain, BlobNoLinks, BlobRowsTight, BlobStrayNei, BlobBadMagic, BlobBadMmapVersion,
          BlobBadNavMagic, BlobBadNavVersion}

\* ------------------------------------------------------------------------
\* The byte string of a blob, and addTile on a prefix of it.  The string is
\* the 20-byte envelope, the 100-byte mesh header, 12 bytes per vertex, 32
\* per polygon and 16 per link (the blobs declare no other section).
\* binary.lua: readU16, readU32, readU64 and readFloat add up the bytes they
\* fetch, so a missing byte (nil) raises a runtime error; readU8 hands the
\* missing byte back as nil.
\* ------------------------------------------------------------------------
ENVELOPE_SIZE == 20
HEADER_SIZE == 100
VERT_SIZE == 12
POLY_SIZE == 32
LINK_SIZE == 16
\* bytes of a polygon / link record up to its trailing readU8 fields
POLY_WIDE == 30
LINK_WIDE == 12

BlobSize(blob) ==
  ENVELOPE_SIZE + HEADER_SIZE + VERT_SIZE * Len(blob.verts)
    + POLY_SIZE * Len(blob.polys) + LINK_SIZE * blob.maxLinkCount

\* offset in the tile data just past the last byte that parseTileData
\* fetches with a reader other than readU8
WideEnd(blob) ==
  LET vertsEnd == HEADER_SIZE + VERT_SIZE * Len(blob.verts)
      polysEnd == vertsEnd + POLY_SIZE * Len(blob.polys)
  IN IF blob.maxLinkCount > 0
     THEN polysEnd + LINK_SIZE * (blob.maxLinkCount - 1) + LINK_WIDE
     ELSE IF Len(blob.polys) > 0 THEN polysEnd - POLY_SIZE + POLY_WIDE
     ELSE vertsEnd

\* addTile(data) where data is the first len bytes of the blob's string.
\* The readU8 fields that a short string leaves nil are the tail of the last
\* link (every link is rewritten before it is read) or, with an empty link
\* pool, the tail of the last polygon (the free-list build fails before it
\* is read).
addTileData(nm, blob, len) ==
  IF len < ENVELOPE_SIZE
  THEN [nm |-> nm, res |-> "error", msg |-> "arithmetic on nil"]
  ELSE IF blob.magic # MMAP_MAGIC \/ blob.mmapVer # MMAP_VERSION
  THEN addTile(nm, blob)
  ELSE IF len - ENVELOPE_SIZE < HEADER_SIZE
  THEN [nm |-> nm, res |-> "error", msg |-> "arithmetic on nil"]
  ELSE IF ~parseTileData(blob).ok
  THEN addTile(nm, blob)
  ELSE IF len - ENVELOPE_SIZE < WideEnd(blob)
  THEN [nm |-> nm, res |-> "error", msg |-> "arithmetic on nil"]
  ELSE addTile(nm, blob)

\* ------------------------------------------------------------------------
\* Fixed-point vectors
\* ------------------------------------------------------------------------
\* units per world unit of the search's positions, costs and totals
POS_SCALE == 100
\* H_SCALE = 0.999 as H_SCALE_NUM / H_SCALE_DEN
H_SCALE_NUM == 999
H_SCALE_DEN == 1000

dtVdist(v1, v2) ==
  ISqrt((v2[1] - v1[1]) * (v2[1] - v1[1]) + (v2[2] - v1[2]) * (v2[2] - v1[2])
        + (v2[3] - v1[3]) * (v2[3] - v1[3]))

HScaled(d) == (d * H_SCALE_NUM) \div H_SCALE_DEN

\* ------------------------------------------------------------------------
\* NodePool.  node: [pos, cost, total, pidx, state, flags, id, hidx]; the
\* slot index of a node is its position in the pool (node._idx).  The hash
\* chains hold exactly the nodes handed out since clear(), so a lookup is a
\* search of nodes 1..nodeCount.
\* ------------------------------------------------------------------------
\* node.state of _sideToCS[side + 1] for a side past the table's end (nil)
NIL_STATE == 0 - 1

BlankNode == [pos |-> <<0, 0, 0>>, cost |-> 0, total |-> 0, pidx |-> 0,
              state |-> 0, flags |-> 0, id |-> NullRef, hidx |-> 0]

findNode(ns, cnt, id, state) ==
  LET hits == {i \in 1..cnt : ns[i].id = id /\ ns[i].state = state}
  IN IF hits = {} THEN 0 ELSE CHOOSE i \in hits : TRUE

\* getNode that leaves the flags of a reused node as they are
getNode_KeepsFlags(ns, cnt, cap, id, state) ==
  LET f == findNode(ns, cnt, id, state)
  IN IF f # 0 THEN [idx |-> f, nodes |-> ns, count |-> cnt]
     ELSE IF cnt >= cap THEN [idx |-> 0, nodes |-> ns, count |-> cnt]
     ELSE [idx |-> cnt + 1,
           nodes |-> [ns EXCEPT ![cnt + 1].state = state, ![cnt + 1].id = id],
           count |-> cnt + 1]

\* getNode(id, state): [idx, nodes, count]; idx 0 stands for nil.  A reused
\* node keeps its pos, cost, total, pidx and heap index.
getNode(ns, cnt, cap, id, state) ==
  LET f == findNode(ns, cnt, id, state)
  IN IF f # 0 THEN [idx |-> f, nodes |-> ns, count |-> cnt]
     ELSE IF cnt >= cap THEN [idx |-> 0, nodes |-> ns, count |-> cnt]
     ELSE [idx |-> cnt + 1,
           nodes |-> [ns EXCEPT ![cnt + 1].state = state,
                                ![cnt + 1].flags = 0,
                                ![cnt + 1].id = id],
           count |-> cnt + 1]

\* ------------------------------------------------------------------------
\* NodeQueue: binary min-heap on node.total, 1-based.  hn is [heap, nodes];
\* heap holds node indices, nodes[n].hidx is the node's heap position.
\* ------------------------------------------------------------------------
\* _bubbleUp without "ph._hidx = i"
RECURSIVE bubbleUp_NoHidx(_, _, _)
bubbleUp_NoHidx(hn, i, node) ==
  LET parent == i \div 2
  IN IF i > 1 /\ hn.nodes[hn.heap[parent]].total > hn.nodes[node].total
     THEN bubbleUp_NoHidx([heap |-> [hn.heap EXCEPT ![i] = hn.heap[parent]],
                           nodes |-> hn.nodes],
                          parent, node)
     ELSE [heap |-> [hn.heap EXCEPT ![i] = node],
           nodes |-> [hn.nodes EXCEPT ![node].hidx = i]]

RECURSIVE bubbleUp(_, _, _)
bubbleUp(hn, i, node) ==
  LET parent == i \div 2
  IN IF i > 1 /\ hn.nodes[hn.heap[parent]].total > hn.nodes[node].total
     THEN LET ph == hn.heap[parent]
          IN bubbleUp([heap |-> [hn.heap EXCEPT ![i] = ph],
                       nodes |-> [hn.nodes EXCEPT ![ph].hidx = i]],
                      parent, node)
     ELSE [heap |-> [hn.heap EXCEPT ![i] = node],
           nodes |-> [hn.nodes EXCEPT ![node].hidx = i]]

\* _trickleDown that never looks at the right child
RECURSIVE trickleDown_LeftOnly(_, _, _, _)
trickleDown_LeftOnly(hn, sz, i, node) ==
  LET left == i * 2
  IN IF left > sz \/ hn.nodes[node].total <= hn.nodes[hn.heap[left]].total
     THEN [heap |-> [hn.heap EXCEPT ![i] = node],
           nodes |-> [hn.nodes EXCEPT ![node].hidx = i]]
     ELSE trickleDown_LeftOnly(
            [heap |-> [hn.heap EXCEPT ![i] = hn.heap[left]],
             nodes |-> [hn.nodes EXCEPT ![hn.heap[left]].hidx = i]],
            sz, left, node)

RECURSIVE trickleDown(_, _, _, _)
trickleDown(hn, sz, i, node) ==
  LET left == i * 2
  IN IF left > sz
     THEN [heap |-> [hn.heap EXCEPT ![i] = node],
           nodes |-> [hn.nodes EXCEPT ![node].hidx = i]]
     ELSE LET child == IF left < sz /\ hn.nodes[hn.heap[left]].total
                                        > hn.nodes[hn.heap[left + 1]].total
                       THEN left + 1 ELSE left
              c1 == hn.heap[child]
          IN IF hn.nodes[node].total <= hn.nodes[c1].total
             THEN [heap |-> [hn.heap EXCEPT ![i] = node],
                   nodes |-> [hn.nodes EXCEPT ![node].hidx = i]]
             ELSE trickleDown([heap |-> [hn.heap EXCEPT ![i] = c1],
                               nodes |-> [hn.nodes EXCEPT ![c1].hidx = i]],
                              sz, child, node)

\* push(node): [heap, nodes, size]
QueuePush(hn, sz, node) ==
  LET r == bubbleUp(hn, sz + 1, node)
  IN [heap |-> r.heap, nodes |-> r.nodes, size |-> sz + 1]

\* pop() without "self.size = self.size - 1"
QueuePop_KeepsSize(hn, sz) ==
  [top |-> hn.heap[1], heap |-> hn.heap, nodes |-> hn.nodes, size |-> sz]

\* pop(): [top, heap, nodes, size]
QueuePop(hn, sz) ==
  LET top == hn.heap[1]
      last == hn.heap[sz]
      r == IF sz - 1 > 0 THEN trickleDown(hn, sz - 1, 1, last) ELSE hn
  IN [top |-> top, heap |-> r.heap, nodes |-> r.nodes, size |-> sz - 1]

\* modify(node)
QueueModify(hn, node) == bubbleUp(hn, hn.nodes[node].hidx, node)

\* ------------------------------------------------------------------------
\* Query filter: [includeFlags, excludeFlags, areaCost]
\* ------------------------------------------------------------------------
RECURSIVE band(_, _)
band(a, b) ==
  IF a = 0 \/ b = 0 THEN 0
  ELSE 2 * band(a \div 2, b \div 2) + (IF a % 2 = 1 /\ b % 2 = 1 THEN 1 ELSE 0)

passFilter(filter, poly) ==
  ~(\/ band(poly.flags, filter.includeFlags) = 0
    \/ (filter.excludeFlags # 0 /\ band(poly.flags, filter.excludeFlags) # 0))

\* ------------------------------------------------------------------------
\* findPath helpers
\* ------------------------------------------------------------------------
\* _sideToCS = {0, 0, 1, 1, 2, 2}, indexed by side + 1
sideToCS(side) == IF side + 1 <= 6 THEN <<0, 0, 1, 1, 2, 2>>[side + 1] ELSE NIL_STATE

crossSideOf(link) == IF link.side # INTERNAL_SIDE THEN sideToCS(link.side) ELSE 0

\* _writeMidPoint for two ground polygons (every polygon of the blobs has
\* areaAndtype < 64): the midpoint of the link's portal on edge link.edge of
\* fromPoly, in fixed point.
writeMidPoint(fromPoly, fromTile, link) ==
  LET v0 == Vert(fromTile, fromPoly.verts[link.edge + 1])
      v1 == Vert(fromTile, fromPoly.verts[((link.edge + 1) % fromPoly.vertCount) + 1])
  IN IF link.side # INTERNAL_SIDE /\ (link.bmin # 0 \/ link.bmax # 255)
     THEN [c \in 1..3 |->
             (POS_SCALE * (510 * v0[c] + (v1[c] - v0[c]) * (link.bmin + link.bmax)))
               \div 510]
     ELSE [c \in 1..3 |-> (POS_SCALE * (v0[c] + v1[c])) \div 2]

\* the pidx chain from node n back to the start node, last node first
RECURSIVE ParentChain(_, _, _)
ParentChain(ns, n, fuel) ==
  IF n = 0 \/ fuel = 0 THEN <<>>
  ELSE <<n>> \o ParentChain(ns, ns[n].pidx, fuel - 1)

\* variants of _getPathToNode: one keeps the cells nearest endNode, one does
\* not report the truncation
getPathToNode_EndMost(ns, endNode, maxPath, fuel) ==
  LET chain == ParentChain(ns, endNode, fuel)
      length == Len(chain)
      writeCount == IF length > maxPath THEN maxPath ELSE length
  IN [path |-> [i \in 1..writeCount |-> ns[chain[(writeCount - i) + 1]].id],
      pathCount |-> dtMin(length, maxPath),
      status |-> IF length > maxPath THEN {DT_SUCCESS, DT_BUFFER_TOO_SMALL}
                 ELSE {DT_SUCCESS}]

getPathToNode_NoFlag(ns, endNode, maxPath, fuel) ==
  LET chain == ParentChain(ns, endNode, fuel)
      length == Len(chain)
      writeCount == IF length > maxPath THEN maxPath ELSE length
      skipped == length - writeCount
  IN [path |-> [i \in 1..writeCount |-> ns[chain[skipped + (writeCount - i) + 1]].id],
      pathCount |-> dtMin(length, maxPath),
      status |-> {DT_SUCCESS}]

\* _getPathToNode(endNode, maxPath): [path, pathCount, status]; the refs that
\* the write loop stores in the first writeCount cells of the path buffer
getPathToNode(ns, endNode, maxPath, fuel) ==
  LET chain == ParentChain(ns, endNode, fuel)
      length == Len(chain)
      writeCount == IF length > maxPath THEN maxPath ELSE length
      skipped == length - writeCount
  IN [path |-> [i \in 1..writeCount |-> ns[chain[skipped + (writeCount - i) + 1]].id],
      pathCount |-> dtMin(length, maxPath),
      status |-> IF length > maxPath THEN {DT_SUCCESS, DT_BUFFER_TOO_SMALL}
                 ELSE {DT_SUCCESS}]

\* ------------------------------------------------------------------------
\* findStraightPath over ground polygons (the blobs hold no off-mesh
\* connection).  Positions are fixed point; a point on a segment is rounded
\* down to a fixed-point unit, which is exact on the axis-parallel edges of
\* the blobs' polygons and on the portals of links that cover a whole edge.
\* ------------------------------------------------------------------------
DT_IN_PROGRESS == "IN_PROGRESS"
DT_STRAIGHTPATH_START == 1
DT_STRAIGHTPATH_END == 2
\* largest maxStraight handed to findStraightPath; _spPath, _spFlags and
\* _spRefs are kept with one slot more
MaxStraight == 3

dtVdistSqr(v1, v2) ==
  (v2[1] - v1[1]) * (v2[1] - v1[1]) + (v2[2] - v1[2]) * (v2[2] - v1[2])
    + (v2[3] - v1[3]) * (v2[3] - v1[3])

\* dtVdistSqr < (1/16384)^2, which is less than one fixed-point unit squared
dtVequal(p0, p1) == dtVdistSqr(p0, p1) = 0

\* dtDistancePtSegSqr2D(pt, p, q): [d, tn, td] with t = tn / td clamped to 0..1
dtDistancePtSegSqr2D(pt, p, q) ==
  LET pqx == q[1] - p[1]
      pqz == q[3] - p[3]
      d == pqx * pqx + pqz * pqz
      t0 == pqx * (pt[1] - p[1]) + pqz * (pt[3] - p[3])
      td == IF d > 0 THEN d ELSE 1
      tn == IF t0 < 0 THEN 0 ELSE IF t0 > td THEN td ELSE t0
      dx == p[1] + (tn * pqx) \div td - pt[1]
      dz == p[3] + (tn * pqz) \div td - pt[3]
  IN [d |-> dx * dx + dz * dz, tn |-> tn, td |-> td]

\* the crossing test of dtDistancePtPolyEdgesSqr for the edge from vj to vi:
\* pt[1] < (vj_x - vi_x) * (pt[3] - vi_z) / (vj_z - vi_z) + vi_x
EdgeCrossed(pt, vi, vj) ==
  /\ (vi[3] > pt[3]) # (vj[3] > pt[3])
  /\ IF vj[3] - vi[3] > 0
     THEN (pt[1] - vi[1]) * (vj[3] - vi[3]) < (vj[1] - vi[1]) * (pt[3] - vi[3])
     ELSE (pt[1] - vi[1]) * (vj[3] - vi[3]) > (vj[1] - vi[1]) * (pt[3] - vi[3])

\* dtDistancePtPolyEdgesSqr: [inside, ed]; ed[j] is for the edge from
\* verts[j] to verts[j % nv + 1]
dtDistancePtPolyEdgesSqr(pt, verts) ==
  LET nv == Len(verts)
      prev(i) == IF i = 1 THEN nv ELSE i - 1
  IN [inside |-> Cardinality({i \in 1..nv :
                                EdgeCrossed(pt, verts[i], verts[prev(i)])}) % 2 = 1,
      ed |-> [j \in 1..nv |->
                dtDistancePtSegSqr2D(pt, verts[j], verts[(j % nv) + 1])]]

\* index of the first smallest ed[k].d
RECURSIVE NearestEdge(_, _, _)
NearestEdge(ed, k, imin) ==
  IF k > Len(ed) THEN imin
  ELSE NearestEdge(ed, k + 1, IF ed[k].d < ed[imin].d THEN k ELSE imin)

\* closestPointOnPolyBoundary(ref, pos) for a ref of an installed polygon
closestPointOnPolyBoundary(nm, ref, pos) ==
  LET tile == nm.tiles[TileOfRef(ref)]
      poly == tile.polys[PolyOfRef(ref)]
      verts == [k \in 1..poly.vertCount |->
                  [c \in 1..3 |-> POS_SCALE * Vert(tile, poly.verts[k])[c]]]
      e == dtDistancePtPolyEdgesSqr(pos, verts)
      imin == NearestEdge(e.ed, 2, 1)
      v0 == verts[imin]
      v1 == verts[(imin % poly.vertCount) + 1]
  IN IF e.inside THEN pos
     ELSE [c \in 1..3 |->
             v0[c] + ((v1[c] - v0[c]) * e.ed[imin].tn) \div e.ed[imin].td]

\* the buffers of a new query: _spCountRef, _spPath, _spFlags, _spRefs and
\* the module's _fspApex and _fspClosestEnd (a flag or ref of 0 is nil)
BlankStraight ==
  [count |-> 0,
   pos |-> [i \in 1..MaxStraight + 1 |-> <<0, 0, 0>>],
   flags |-> [i \in 1..MaxStraight + 1 |-> 0],
   refs |-> [i \in 1..MaxStraight + 1 |-> NullRef],
   apex |-> <<0, 0, 0>>,
   closestEnd |-> <<0, 0, 0>>]

\* _appendVertex that never merges with the last vertex
appendVertex_NoMerge(b, pos, flags, ref, maxStraight) ==
  [sp |-> [b EXCEPT !.count = b.count + 1,
                    !.pos[b.count + 1] = pos,
                    !.flags[b.count + 1] = flags,
                    !.refs[b.count + 1] = ref],
   stat |-> IF b.count + 1 >= maxStraight THEN {DT_SUCCESS, DT_BUFFER_TOO_SMALL}
            ELSE IF flags = DT_STRAIGHTPATH_END THEN {DT_SUCCESS}
            ELSE {DT_IN_PROGRESS}]

\* _appendVertex: [sp, stat]
appendVertex(b, pos, flags, ref, maxStraight) ==
  IF b.count > 0 /\ dtVequal(b.pos[b.count], pos)
  THEN [sp |-> [b EXCEPT !.flags[b.count] = flags, !.refs[b.count] = ref],
        stat |-> {DT_IN_PROGRESS}]
  ELSE [sp |-> [b EXCEPT !.count = b.count + 1,
                         !.pos[b.count + 1] = pos,
                         !.flags[b.count + 1] = flags,
                         !.refs[b.count + 1] = ref],
        stat |-> IF b.count + 1 >= maxStraight
                 THEN {DT_SUCCESS, DT_BUFFER_TOO_SMALL}
                 ELSE IF flags = DT_STRAIGHTPATH_END THEN {DT_SUCCESS}
                 ELSE {DT_IN_PROGRESS}]

\* the links met when following .next from head, as a sequence of link
\* indices; at most fuel of them
RECURSIVE LinkChain(_, _, _)
LinkChain(tile, head, fuel) ==
  IF head + 1 \notin DOMAIN tile.links \/ fuel = 0 THEN <<>>
  ELSE <<head>> \o LinkChain(tile, tile.links[head + 1].next, fuel - 1)

\* "Append end" and the status of the return: [sp, count, status, seen]
StraightEnd(b, maxStraight, seen) ==
  LET e == appendVertex(b, b.closestEnd, DT_STRAIGHTPATH_END, NullRef, maxStraight).sp
  IN [sp |-> e, count |-> e.count,
      status |-> IF e.count >= maxStraight THEN {DT_SUCCESS, DT_BUFFER_TOO_SMALL}
                 ELSE {DT_SUCCESS},
      seen |-> seen]

\* a return with the status stat that _appendVertex or _appendPortals gave
StraightReturn(b, stat, seen) ==
  [sp |-> b, count |-> b.count, status |-> stat, seen |-> seen]

\* the call stopped by a Lua runtime error (a nil value was indexed)
StraightError(b, seen) ==
  [sp |-> b, count |-> 0, status |-> {"error"}, seen |-> seen]

dtTriArea2D(a, b, c) ==
  (c[1] - a[1]) * (b[3] - a[3]) - (b[1] - a[1]) * (c[3] - a[3])

\* getTileAndPolyByRefUnsafe(ref): "ok"; "nopoly" when tile.polys[ip+1] is
\* nil; "error" when the slot has no polys table to index (a free slot)
lookupUnsafe(nm, ref) ==
  IF TileOfRef(ref) > MaxTiles THEN "error"
  ELSE IF nm.tiles[TileOfRef(ref)].header = NoHeader THEN "error"
  ELSE IF PolyOfRef(ref) > Len(nm.tiles[TileOfRef(ref)].polys) THEN "nopoly"
  ELSE "ok"

\* closestPointOnPolyBoundary(ref, pos, dest) for any ref: [err, pt]
clampToPoly(nm, ref, pos) ==
  IF lookupUnsafe(nm, ref) = "ok"
  THEN [err |-> FALSE, pt |-> closestPointOnPolyBoundary(nm, ref, pos)]
  ELSE [err |-> TRUE, pt |-> pos]

\* _getPortalPointsFull for two ground polygons: the first link of fromPoly
\* with lk.ref = to gives the portal, the part bmin/255 .. bmax/255 of edge
\* link.edge for a link that covers part of it: [ok, left, right]
portalOfLink(link, v0, v1) ==
  IF link.side # INTERNAL_SIDE /\ (link.bmin # 0 \/ link.bmax # 255)
  THEN [ok |-> TRUE,
        left |-> [c \in 1..3 |-> POS_SCALE * v0[c]
                   + (POS_SCALE * (v1[c] - v0[c]) * link.bmin) \div 255],
        right |-> [c \in 1..3 |-> POS_SCALE * v0[c]
                   + (POS_SCALE * (v1[c] - v0[c]) * link.bmax) \div 255]]
  ELSE [ok |-> TRUE,
        left |-> [c \in 1..3 |-> POS_SCALE * v0[c]],
        right |-> [c \in 1..3 |-> POS_SCALE * v1[c]]]

portalOnEdge(fromTile, fromPoly, link) ==
  portalOfLink(link, Vert(fromTile, fromPoly.verts[link.edge + 1]),
               Vert(fromTile,
                    fromPoly.verts[((link.edge + 1) % fromPoly.vertCount) + 1]))

\* hits are the places in chain of the links with lk.ref = to
portalAmong(fromTile, fromPoly, chain, hits) ==
  IF hits = {}
  THEN [ok |-> FALSE, left |-> <<0, 0, 0>>, right |-> <<0, 0, 0>>]
  ELSE portalOnEdge(fromTile, fromPoly,
                    fromTile.links[chain[CHOOSE k \in hits :
                                           \A h \in hits : k <= h] + 1])

portalAlong(fromTile, fromPoly, to, chain) ==
  portalAmong(fromTile, fromPoly, chain,
              {k \in 1..Len(chain) : fromTile.links[chain[k] + 1].ref = to})

getPortalPointsFull(fromTile, fromPoly, to) ==
  portalAlong(fromTile, fromPoly, to,
              LinkChain(fromTile, fromPoly.firstLink, Len(fromTile.links) + 1))

\* _getPortalPoints(from, to): [err, ok, left, right]; the unsafe lookups
\* raise an error or hand a nil polygon to _getPortalPointsFull
getPortalPoints(nm, from, to) ==
  IF lookupUnsafe(nm, from) # "ok" \/ lookupUnsafe(nm, to) = "error"
  THEN [err |-> TRUE, ok |-> FALSE, left |-> <<0, 0, 0>>, right |-> <<0, 0, 0>>]
  ELSE LET p == getPortalPointsFull(nm.tiles[TileOfRef(from)],
                  nm.tiles[TileOfRef(from)].polys[PolyOfRef(from)], to)
       IN [err |-> p.ok /\ lookupUnsafe(nm, to) # "ok", ok |-> p.ok,
           left |-> p.left, right |-> p.right]

\* dtIntersectSegSeg2D(ap, aq, bp, bq): [ok, tn, td] with t = tn / td, td > 0
dtIntersectSegSeg2D(ap, aq, bp, bq) ==
  LET ux == aq[1] - ap[1]
      uz == aq[3] - ap[3]
      vx == bq[1] - bp[1]
      vz == bq[3] - bp[3]
      wx == ap[1] - bp[1]
      wz == ap[3] - bp[3]
      d == ux * vz - uz * vx
      n == ux * wz - uz * wx
  IN [ok |-> d # 0,
      tn |-> IF d < 0 THEN 0 - n ELSE n,
      td |-> IF d = 0 THEN 1 ELSE dtAbs(d)]

\* _appendPortals(startIdx, endIdx, endPos, ...): [sp, stat].  from is the
\* vertex that was last in the straight path when the call began.
RECURSIVE appendPortalsFrom(_, _, _, _, _, _, _)

\* the crossing was appended: a is what _appendVertex answered
appendPortalsNext(c, a, from, i, endIdx, endPos, fuel) ==
  IF a.stat # {DT_IN_PROGRESS} THEN a
  ELSE appendPortalsFrom(c, a.sp, from, i + 1, endIdx, endPos, fuel - 1)

\* x is what dtIntersectSegSeg2D(from, endPos, left, right) answered
appendPortalsCross(c, b, from, i, endIdx, endPos, fuel, p, x) ==
  IF ~x.ok THEN appendPortalsFrom(c, b, from, i + 1, endIdx, endPos, fuel - 1)
  ELSE appendPortalsNext(c,
         appendVertex(b,
                      [k \in 1..3 |->
                         p.left[k] + ((p.right[k] - p.left[k]) * x.tn) \div x.td],
                      0, c.path[i + 1], c.maxStraight),
         from, i, endIdx, endPos, fuel)

\* p is the portal from path[i] to path[i + 1]
appendPortalsAt(c, b, from, i, endIdx, endPos, fuel, fromPoly, toPoly, p) ==
  IF ~p.ok THEN [sp |-> b, stat |-> {DT_IN_PROGRESS}]
  ELSE IF c.options % 2 = 1
          /\ fromPoly.areaAndtype % 64 = toPoly.areaAndtype % 64
  THEN appendPortalsFrom(c, b, from, i + 1, endIdx, endPos, fuel - 1)
  ELSE appendPortalsCross(c, b, from, i, endIdx, endPos, fuel, p,
                          dtIntersectSegSeg2D(from, endPos, p.left, p.right))

appendPortalsFrom(c, b, from, i, endIdx, endPos, fuel) ==
  IF i > endIdx - 1 \/ fuel = 0 THEN [sp |-> b, stat |-> {DT_IN_PROGRESS}]
  ELSE IF ~isValidPolyRef(c.nm, c.path[i]) \/ ~isValidPolyRef(c.nm, c.path[i + 1])
  THEN [sp |-> b, stat |-> {DT_FAILURE, DT_INVALID_PARAM}]
  ELSE appendPortalsAt(c, b, from, i, endIdx, endPos, fuel,
         c.nm.tiles[TileOfRef(c.path[i])].polys[PolyOfRef(c.path[i])],
         c.nm.tiles[TileOfRef(c.path[i + 1])].polys[PolyOfRef(c.path[i + 1])],
         getPortalPointsFull(c.nm.tiles[TileOfRef(c.path[i])],
           c.nm.tiles[TileOfRef(c.path[i])].polys[PolyOfRef(c.path[i])],
           c.path[i + 1]))

appendPortals(c, b, startIdx, endIdx, endPos) ==
  appendPortalsFrom(c, b, b.pos[b.count], startIdx, endIdx, endPos, c.pathSize)

\* the crossings are asked for: (options % 4) >= 1
WithCrossings(c) == c.options % 4 >= 1

\* the return of the failure branch; b2 holds the vertex appended last
PortalFailedEnd(c, f, b2) ==
  StraightReturn(b2,
    IF b2.count >= c.maxStraight
    THEN {DT_SUCCESS, DT_PARTIAL_RESULT, DT_BUFFER_TOO_SMALL}
    ELSE {DT_SUCCESS, DT_PARTIAL_RESULT},
    f.seen)

\* a failure branch that appends the end point as it was handed in
PortalFailed_KeepsEnd(c, f, i) ==
  PortalFailedEnd(c, f,
    appendVertex(IF WithCrossings(c)
                 THEN appendPortals(c, f.b, f.apexIndex, i, c.endPos).sp
                 ELSE f.b,
                 c.endPos, 0, c.path[i], c.maxStraight).sp)

\* ce is the end clamped to path[i], b0 the buffers with it written to
\* _fspClosestEnd
PortalFailedAt(c, f, i, ce, b0) ==
  IF ce.err THEN StraightError(f.b, f.seen)
  ELSE PortalFailedEnd(c, f,
         appendVertex(IF WithCrossings(c)
                      THEN appendPortals(c, b0, f.apexIndex, i, ce.pt).sp
                      ELSE b0,
                      ce.pt, 0, c.path[i], c.maxStraight).sp)

PortalFailedClamped(c, f, i, ce) ==
  PortalFailedAt(c, f, i, ce, [f.b EXCEPT !.closestEnd = ce.pt, !.apex = f.apex])

\* the branch of a portal that cannot be had: the end is clamped to
\* path[i], the crossings and the clamped end are appended whatever
\* _appendPortals and _appendVertex answer
PortalFailed(c, f, i) ==
  PortalFailedClamped(c, f, i, clampToPoly(c.nm, c.path[i], c.endPos))

\* p is what "Append portals to end" answered
FunnelDoneWith(c, f, p) ==
  IF p.stat # {DT_IN_PROGRESS} THEN StraightReturn(p.sp, p.stat, f.seen)
  ELSE StraightEnd(p.sp, c.maxStraight, f.seen)

FunnelDoneFrom(c, f, b0) ==
  FunnelDoneWith(c, f,
    IF WithCrossings(c)
    THEN appendPortals(c, b0, f.apexIndex, c.pathSize, b0.closestEnd)
    ELSE [sp |-> b0, stat |-> {DT_IN_PROGRESS}])

\* after the loop: "Append portals to end", then "Append end"
FunnelDone(c, f) == FunnelDoneFrom(c, f, [f.b EXCEPT !.apex = f.apex])

\* the funnel of findStraightPath.  f is [b, apex, left, right, apexIndex,
\* leftIndex, rightIndex, leftRef, rightRef, seen]: the buffers, the portal
\* apex/left/right with their corridor indices and polygon refs, and the
\* indices i for which the portal path[i] -> path[i+1] was fetched.
RECURSIVE FunnelLoop(_, _, _, _)

\* a is what _appendVertex answered for the corner
FunnelAdvanced(c, f, corner, index, a, fuel) ==
  IF a.stat # {DT_IN_PROGRESS} THEN StraightReturn(a.sp, a.stat, f.seen)
  ELSE FunnelLoop(c, [f EXCEPT !.b = a.sp, !.apex = corner,
                               !.apexIndex = index,
                               !.left = corner, !.right = corner,
                               !.leftIndex = index, !.rightIndex = index],
                  index + 1, fuel - 1)

\* p is what _appendPortals answered for the crossings up to the corner
FunnelAdvanceWith(c, f, corner, index, ref, p, fuel) ==
  IF p.stat # {DT_IN_PROGRESS} THEN StraightReturn(p.sp, p.stat, f.seen)
  ELSE FunnelAdvanced(c, f, corner, index,
         appendVertex([p.sp EXCEPT !.apex = corner], corner,
                      IF ref = NullRef THEN DT_STRAIGHTPATH_END ELSE 0,
                      ref, c.maxStraight),
         fuel)

FunnelAdvanceTo(c, f, corner, index, ref, fuel) ==
  FunnelAdvanceWith(c, f, corner, index, ref,
    IF WithCrossings(c)
    THEN appendPortals(c, [f.b EXCEPT !.apex = f.apex], f.apexIndex, index, corner)
    ELSE [sp |-> f.b, stat |-> {DT_IN_PROGRESS}],
    fuel)

\* the funnel collapses onto the vertex side ("left" or "right"): the
\* crossings up to it, the new apex, its vertex; the loop resumes behind it
FunnelAdvance(c, f, side, fuel) ==
  IF side = "left"
  THEN FunnelAdvanceTo(c, f, f.left, f.leftIndex, f.leftRef, fuel)
  ELSE FunnelAdvanceTo(c, f, f.right, f.rightIndex, f.rightRef, fuel)

\* "Left vertex"
FunnelLeft(c, f, i, left, fuel) ==
  IF dtTriArea2D(f.apex, f.left, left) >= 0
  THEN IF dtVequal(f.apex, f.left) \/ dtTriArea2D(f.apex, f.right, left) < 0
       THEN FunnelLoop(c, [f EXCEPT !.left = left,
                                    !.leftRef = IF i + 1 <= c.pathSize
                                                THEN c.path[i + 1] ELSE NullRef,
                                    !.leftIndex = i],
                       i + 1, fuel - 1)
       ELSE FunnelAdvance(c, f, "right", fuel)
  ELSE FunnelLoop(c, f, i + 1, fuel - 1)

\* "Right vertex", then the left one
FunnelRight(c, f, i, left, right, fuel) ==
  IF dtTriArea2D(f.apex, f.right, right) <= 0
  THEN IF dtVequal(f.apex, f.right) \/ dtTriArea2D(f.apex, f.left, right) > 0
       THEN FunnelLeft(c, [f EXCEPT !.right = right,
                                    !.rightRef = IF i + 1 <= c.pathSize
                                                 THEN c.path[i + 1] ELSE NullRef,
                                    !.rightIndex = i],
                       i, left, fuel)
       ELSE FunnelAdvance(c, f, "left", fuel)
  ELSE FunnelLeft(c, f, i, left, fuel)

\* a portal was fetched for i: the failure branch, the skip of a first
\* portal that the start lies on ("i = i + 1; break", and the loop's own
\* "i = i + 1" follows), or the funnel
FunnelPortal(c, f, i, pp, fuel) ==
  IF pp.err THEN StraightError(f.b, f.seen)
  ELSE IF ~pp.ok THEN PortalFailed(c, f, i)
  ELSE IF i = 1 /\ dtDistancePtSegSqr2D(f.apex, pp.left, pp.right).d = 0
  THEN FunnelLoop(c, f, i + 2, fuel - 1)
  ELSE FunnelRight(c, f, i, pp.left, pp.right, fuel)

FunnelLoop(c, f, i, fuel) ==
  IF i > c.pathSize THEN FunnelDone(c, f)
  ELSE IF fuel = 0 THEN StraightReturn(f.b, {"fuel"}, f.seen)
  ELSE IF i + 1 <= c.pathSize
  THEN FunnelPortal(c, [f EXCEPT !.seen = @ \cup {i}], i,
                    getPortalPoints(c.nm, c.path[i], c.path[i + 1]), fuel)
  ELSE FunnelRight(c, f, i, f.b.closestEnd, f.b.closestEnd, fuel)

\* more iterations than the loop of a corridor of n polygons makes: every
\* new apex lies further along the corridor than the one before
FunnelFuel(n) == n * (n + 2)

\* "Add start point" and what follows; a is what _appendVertex answered
StraightStart(c, a) ==
  IF a.stat # {DT_IN_PROGRESS} THEN StraightReturn(a.sp, a.stat, {})
  ELSE IF c.pathSize > 1
  THEN FunnelLoop(c, [b |-> a.sp, apex |-> a.sp.apex,
                      left |-> a.sp.apex, right |-> a.sp.apex,
                      apexIndex |-> 1, leftIndex |-> 1, rightIndex |-> 1,
                      leftRef |-> c.path[1], rightRef |-> c.path[1],
                      seen |-> {}],
                  1, FunnelFuel(c.pathSize))
  ELSE StraightEnd(a.sp, c.maxStraight, {})

\* the two clamped points are written to _fspApex and _fspClosestEnd
StraightClamped(c, b, cs, ce) ==
  IF cs.err \/ ce.err THEN StraightError(b, {})
  ELSE StraightStart(c,
         appendVertex([b EXCEPT !.apex = cs.pt, !.closestEnd = ce.pt],
                      cs.pt, DT_STRAIGHTPATH_START, c.path[1], c.maxStraight))

\* findStraightPath(startPos, endPos, path, pathSize, maxStraight, options):
\* [sp, count, status, seen]
findStraightPath(nm, b, startPos, endPos, path, pathSize, maxStraight, options) ==
  IF path = <<>> \/ pathSize <= 0
  THEN [sp |-> [b EXCEPT !.count = 0], count |-> 0,
        status |-> {DT_FAILURE, DT_INVALID_PARAM}, seen |-> {}]
  ELSE StraightClamped([nm |-> nm, path |-> path, pathSize |-> pathSize,
                        maxStraight |-> maxStraight, options |-> options,
                        endPos |-> endPos],
                       [b EXCEPT !.count = 0],
                       clampToPoly(nm, path[1], startPos),
                       clampToPoly(nm, path[pathSize], endPos))

\* ------------------------------------------------------------------------
\* State
\* ------------------------------------------------------------------------
VARIABLES
  nav,              \* the NavMesh: [tiles, nextFree, posLookup]
  addRes,           \* outcome of the last addTile: "none", "ok", "fail", "error"
  addMsg,           \* its error string
  addBlob,          \* the blob it was given
  addLen,           \* how many bytes of the blob's string it was given
  navBefore,        \* the NavMesh as it was when that call started
  maxNodes,         \* capacity of the query's node pool
  nodes,            \* node pool storage, reused from call to call
  nodeCount,        \* nodes handed out since the last clear
  heap,             \* open queue storage (node indices)
  heapSize,         \* open queue size
  pc,               \* position of the findPath call
  args,             \* its arguments
  bestNode,         \* node being expanded
  li,               \* link cursor of the expansion
  lastBestNode,
  lastBestNodeCost,
  outOfNodes,
  result,           \* what the call returned: [path, pathCount, status]
  allocFailed,      \* history: some getNode of this call returned nil
  steps,            \* history: steps the call has taken
  sp                \* the query's straight-path buffers

navVars == <<nav, addRes, addMsg, addBlob, addLen, navBefore>>
queryVars == <<maxNodes, nodes, nodeCount, heap, heapSize, pc, args, bestNode,
               li, lastBestNode, lastBestNodeCost, outOfNodes, result,
               allocFailed, steps, sp>>
vars == <<nav, addRes, addMsg, addBlob, addLen, navBefore, maxNodes, nodes, nodeCount,
          heap, heapSize, pc, args, bestNode, li, lastBestNode,
          lastBestNodeCost, outOfNodes, result, allocFailed, steps, sp>>

\* ------------------------------------------------------------------------
\* Tile installation: the state machine of addTile calls
\* ------------------------------------------------------------------------
\* largest node pool a query is created with
MaxNodesBound == 4

BlankArgs == [startRef |-> NullRef, endRef |-> NullRef,
              startPos |-> <<0, 0, 0>>, endPos |-> <<0, 0, 0>>,
              filter |-> [includeFlags |-> 0, excludeFlags |-> 0,
                          areaCost |-> <<1, 1>>],
              maxPath |-> 0]
NoResult == [path |-> <<>>, pathCount |-> 0, status |-> {}]

QueryIdle ==
  /\ nodes = [i \in 1..maxNodes |-> BlankNode]
  /\ nodeCount = 0
  /\ heap = [i \in 1..maxNodes |-> 0]
  /\ heapSize = 0
  /\ pc = "idle"
  /\ args = BlankArgs
  /\ bestNode = 0
  /\ li = DT_NULL_LINK
  /\ lastBestNode = 0
  /\ lastBestNodeCost = 0
  /\ outOfNodes = FALSE
  /\ result = NoResult
  /\ allocFailed = FALSE
  /\ steps = 0
  /\ sp = BlankStraight

InitNav ==
  /\ nav = NewNavMesh
  /\ addRes = "none"
  /\ addMsg = ""
  /\ addBlob = BlobFar
  /\ addLen = BlobSize(BlobFar)
  /\ navBefore = NewNavMesh
  /\ maxNodes = MaxNodesBound
  /\ QueryIdle

AddTile(blob) ==
  LET r == addTile(nav, blob)
  IN /\ nav' = r.nm
     /\ addRes' = r.res
     /\ addMsg' = r.msg
     /\ addBlob' = blob
     /\ addLen' = BlobSize(blob)
     /\ navBefore' = nav
     /\ UNCHANGED queryVars

NextNav == \E blob \in Blobs : AddTile(blob)

SpecNav == InitNav /\ [][NextNav]_vars

\* ------------------------------------------------------------------------
\* One addTile call on a prefix of a blob's byte string
\* ------------------------------------------------------------------------
InitData ==
  /\ nav \in {NewNavMesh, addTile(NewNavMesh, BlobRows).nm}
  /\ addRes = "none"
  /\ addMsg = ""
  /\ addBlob = BlobFar
  /\ addLen = BlobSize(BlobFar)
  /\ navBefore = nav
  /\ maxNodes = MaxNodesBound
  /\ QueryIdle

AddTileData(blob, len) ==
  /\ addRes = "none"
  /\ \E r \in {addTileData(nav, blob, len)} :
       /\ nav' = r.nm
       /\ addRes' = r.res
       /\ addMsg' = r.msg
  /\ addBlob' = blob
  /\ addLen' = len
  /\ navBefore' = nav
  /\ UNCHANGED queryVars

NextData == \E blob \in Blobs : \E len \in 0..BlobSize(blob) : AddTileData(blob, len)

SpecData == InitData /\ [][NextData]_vars

\* ------------------------------------------------------------------------
\* Path search: the state machine of one findPath call on a built mesh
\* ------------------------------------------------------------------------
RECURSIVE BuildMesh(_, _, _)
BuildMesh(nm, blobs, i) ==
  IF i > Len(blobs) THEN nm
  ELSE BuildMesh(addTile(nm, blobs[i]).nm, blobs, i + 1)

\* the tile sets the searches run on, in installation order
MeshRecipes ==
  { <<BlobRows, BlobEast, BlobNorth>>,
    <<BlobEast, BlobRows, BlobEastUp>>,
    <<BlobFar, BlobEast, BlobNorth>>,
    <<BlobNorth, BlobRows>> }

Meshes == {BuildMesh(NewNavMesh, r, 1) : r \in MeshRecipes}

\* every ref of an installed polygon, an out-of-range polygon of the first
\* slot and the null ref
RefsOf(nm) ==
  {PolyRefOf(nm, i, k) : i \in Installed(nm), k \in 1..2}
    \cup {NullRef}

\* largest maxPath passed to findPath
MaxPathArg == 3

Filters ==
  { [includeFlags |-> 65535, excludeFlags |-> 0, areaCost |-> <<1, 1>>],
    [includeFlags |-> 65535, excludeFlags |-> 0, areaCost |-> <<1, 4>>],
    [includeFlags |-> 1, excludeFlags |-> 2, areaCost |-> <<1, 1>>] }

\* (startPos, endPos) pairs, fixed point
PosPairs ==
  { << <<100, 0, 50>>, <<300, 0, 100>> >>,
    << <<300, 0, 100>>, <<100, 0, 300>> >>,
    << <<100, 0, 150>>, <<700, 0, 700>> >>,
    << <<100, 0, 300>>, <<100, 0, 300>> >> }

\* filter.areaCost[area] (areaCost is stored 1-based here)
areaCostOf(filter, poly) == filter.areaCost[(poly.areaAndtype % 64) + 1]

InitPath ==
  /\ nav \in Meshes
  /\ addRes = "ok"
  /\ addMsg = ""
  /\ addBlob = BlobFar
  /\ addLen = BlobSize(BlobFar)
  /\ navBefore = nav
  /\ maxNodes \in 1..MaxNodesBound
  /\ QueryIdle

\* findPath up to the first pop: argument check, the trivial case, clear()
\* of pool and queue, the start node
FindPathBegin(startRef, endRef, startPos, endPos, filter, maxPath) ==
  /\ pc = "idle"
  /\ args' = [startRef |-> startRef, endRef |-> endRef, startPos |-> startPos,
              endPos |-> endPos, filter |-> filter, maxPath |-> maxPath]
  /\ allocFailed' = FALSE
  /\ steps' = 1
  /\ UNCHANGED <<navVars, maxNodes, bestNode, li, sp>>
  /\ IF ~isValidPolyRef(nav, startRef) \/ ~isValidPolyRef(nav, endRef)
     THEN /\ result' = [path |-> <<>>, pathCount |-> 0,
                        status |-> {DT_FAILURE, DT_INVALID_PARAM}]
          /\ pc' = "done"
          /\ UNCHANGED <<nodes, nodeCount, heap, heapSize, lastBestNode,
                         lastBestNodeCost, outOfNodes>>
     ELSE IF startRef = endRef
     THEN /\ result' = [path |-> <<startRef>>, pathCount |-> 1,
                        status |-> {DT_SUCCESS}]
          /\ pc' = "done"
          /\ UNCHANGED <<nodes, nodeCount, heap, heapSize, lastBestNode,
                         lastBestNodeCost, outOfNodes>>
     ELSE LET g == getNode(nodes, 0, maxNodes, startRef, 0)
              total == HScaled(dtVdist(startPos, endPos))
              started == [g.nodes EXCEPT ![g.idx].pos = startPos,
                                         ![g.idx].pidx = 0,
                                         ![g.idx].cost = 0,
                                         ![g.idx].total = total,
                                         ![g.idx].id = startRef,
                                         ![g.idx].flags = DT_NODE_OPEN]
              pushed == QueuePush([heap |-> heap, nodes |-> started], 0, g.idx)
          IN /\ nodes' = pushed.nodes
             /\ nodeCount' = g.count
             /\ heap' = pushed.heap
             /\ heapSize' = pushed.size
             /\ lastBestNode' = g.idx
             /\ lastBestNodeCost' = total
             /\ outOfNodes' = FALSE
             /\ result' = NoResult
             /\ pc' = "loop"

\* head of the while loop: leave when the queue is empty, else pop the best
\* node, close it, and either stop at the goal or start on its links
FindPathPop ==
  /\ pc = "loop"
  /\ steps' = steps + 1
  /\ UNCHANGED <<navVars, maxNodes, nodeCount, args, lastBestNodeCost,
                 outOfNodes, result, allocFailed, sp>>
  /\ IF heapSize = 0
     THEN /\ pc' = "finish"
          /\ UNCHANGED <<nodes, heap, heapSize, bestNode, li, lastBestNode>>
     ELSE LET p == QueuePop([heap |-> heap, nodes |-> nodes], heapSize)
              closed == [p.nodes EXCEPT ![p.top].flags = DT_NODE_CLOSED]
          IN /\ nodes' = closed
             /\ heap' = p.heap
             /\ heapSize' = p.size
             /\ bestNode' = p.top
             /\ IF closed[p.top].id = args.endRef
                THEN /\ lastBestNode' = p.top
                     /\ li' = li
                     /\ pc' = "finish"
                ELSE /\ lastBestNode' = lastBestNode
                     /\ li' = nav.tiles[TileOfRef(closed[p.top].id)]
                                 .polys[PolyOfRef(closed[p.top].id)].firstLink
                     /\ pc' = "links"

\* the two tests that drop a link before a node is asked for: a null or
\* parent ref, and a neighbour polygon that the filter rejects
skipsLink_IgnoresFilter(nm, filter, parentRef, neighbourRef) ==
  neighbourRef = NullRef \/ neighbourRef = parentRef

skipsLink(nm, filter, parentRef, neighbourRef) ==
  \/ neighbourRef = NullRef
  \/ neighbourRef = parentRef
  \/ ~passFilter(filter, nm.tiles[TileOfRef(neighbourRef)].polys[PolyOfRef(neighbourRef)])

\* "if heuristic < lastBestNodeCost"
isBetter_Reversed(heuristic, lastCost) == heuristic > lastCost

isBetter(heuristic, lastCost) == heuristic < lastCost

\* the status findPath returns after _getPathToNode
finishStatus_NoPartial(status, lastId, endRef, oon) ==
  status \cup (IF oon THEN {DT_OUT_OF_NODES} ELSE {})

finishStatus_NoOutOfNodes(status, lastId, endRef, oon) ==
  status \cup (IF lastId # endRef THEN {DT_PARTIAL_RESULT} ELSE {})

finishStatus(status, lastId, endRef, oon) ==
  status \cup (IF lastId # endRef THEN {DT_PARTIAL_RESULT} ELSE {})
         \cup (IF oon THEN {DT_OUT_OF_NODES} ELSE {})

\* The inner loop body works on the search state
\*   s = [nodes, count, heap, size, last, lastCost, oon, failed]
\* (pool storage and count, queue storage and size, lastBestNode and
\* lastBestNodeCost, outOfNodes, and the history flag).

\* "if nf % 2 ~= 0 then modify else push", then the best-so-far update
Requeue(s, n, wasOpen, heuristic) ==
  LET q == IF wasOpen
           THEN [heap |-> QueueModify([heap |-> s.heap, nodes |-> s.nodes], n).heap,
                 nodes |-> QueueModify([heap |-> s.heap, nodes |-> s.nodes], n).nodes,
                 size |-> s.size]
           ELSE QueuePush([heap |-> s.heap, nodes |-> s.nodes], s.size, n)
      better == isBetter(heuristic, s.lastCost)
  IN [s EXCEPT !.nodes = q.nodes, !.heap = q.heap, !.size = q.size,
               !.last = IF better THEN n ELSE s.last,
               !.lastCost = IF better THEN heuristic ELSE s.lastCost]

\* Relax without its two "worse than what the node has" tests
Relax_Always(s, best, n, cost, heuristic) ==
  LET total == cost + heuristic
      nf == s.nodes[n].flags
      nf2 == IF nf % 4 >= 2 THEN nf - DT_NODE_CLOSED ELSE nf
  IN Requeue([s EXCEPT !.nodes[n].pidx = best,
                       !.nodes[n].cost = cost,
                       !.nodes[n].total = total,
                       !.nodes[n].flags = IF nf2 % 2 # 0 THEN nf2
                                          ELSE nf2 + DT_NODE_OPEN],
             n, nf2 % 2 # 0, heuristic)

\* the two "worse than what the node has" tests, then the node update
Relax(s, best, n, cost, heuristic) ==
  LET total == cost + heuristic
      nf == s.nodes[n].flags
      nf2 == IF nf % 4 >= 2 THEN nf - DT_NODE_CLOSED ELSE nf
  IN IF nf % 2 # 0 /\ total >= s.nodes[n].total THEN s
     ELSE IF nf % 4 >= 2 /\ total >= s.nodes[n].total THEN s
     ELSE Requeue([s EXCEPT !.nodes[n].pidx = best,
                            !.nodes[n].cost = cost,
                            !.nodes[n].total = total,
                            !.nodes[n].flags = IF nf2 % 2 # 0 THEN nf2
                                               ELSE nf2 + DT_NODE_OPEN],
                  n, nf2 % 2 # 0, heuristic)

\* cost and heuristic of reaching node n from node best
CostTo(nm, a, s, best, n) ==
  LET bestPoly == nm.tiles[TileOfRef(s.nodes[best].id)].polys[PolyOfRef(s.nodes[best].id)]
      neighbourRef == s.nodes[n].id
      neighbourPoly == nm.tiles[TileOfRef(neighbourRef)].polys[PolyOfRef(neighbourRef)]
      np == s.nodes[n].pos
      curCost == dtVdist(s.nodes[best].pos, np) * areaCostOf(a.filter, bestPoly)
      endCost == dtVdist(np, a.endPos) * areaCostOf(a.filter, neighbourPoly)
  IN IF neighbourRef = a.endRef
     THEN [cost |-> s.nodes[best].cost + curCost + endCost, heuristic |-> 0]
     ELSE [cost |-> s.nodes[best].cost + curCost,
           heuristic |-> HScaled(dtVdist(np, a.endPos))]

Costed(s, best, n, c) == Relax(s, best, n, c.cost, c.heuristic)

\* the node for the neighbour is there: its position is written on first
\* use (flags = 0)
Placed(nm, s, best, link, n) ==
  IF s.nodes[n].flags = 0
  THEN [s EXCEPT !.nodes[n].pos =
          writeMidPoint(nm.tiles[TileOfRef(s.nodes[best].id)]
                          .polys[PolyOfRef(s.nodes[best].id)],
                        nm.tiles[TileOfRef(s.nodes[best].id)], link)]
  ELSE s

Reached(nm, a, s, best, n) == Costed(s, best, n, CostTo(nm, a, s, best, n))

\* g is what getNode handed back for the neighbour
VisitNode(nm, a, s, best, link, g) ==
  IF g.idx = 0 THEN [s EXCEPT !.oon = TRUE, !.failed = TRUE]
  ELSE Reached(nm, a,
               Placed(nm, [s EXCEPT !.nodes = g.nodes, !.count = g.count],
                      best, link, g.idx),
               best, g.idx)

\* one pass of the inner loop body, for link `link` of the node `best`
VisitLink(nm, a, cap, s, best, link) ==
  IF skipsLink(nm, a.filter,
               IF s.nodes[best].pidx # 0 THEN s.nodes[s.nodes[best].pidx].id
               ELSE NullRef,
               link.ref)
  THEN s
  ELSE VisitNode(nm, a, s, best, link,
                 getNode(s.nodes, s.count, cap, link.ref, crossSideOf(link)))

\* one iteration of the inner loop over the links of bestNode's polygon
FindPathLink ==
  /\ pc = "links"
  /\ steps' = steps + 1
  /\ UNCHANGED <<navVars, maxNodes, args, bestNode, result, sp>>
  /\ IF li = DT_NULL_LINK
     THEN /\ pc' = "loop"
          /\ UNCHANGED <<nodes, nodeCount, heap, heapSize, li, lastBestNode,
                         lastBestNodeCost, outOfNodes, allocFailed>>
     ELSE LET link == nav.tiles[TileOfRef(nodes[bestNode].id)].links[li + 1]
          IN \E r \in {VisitLink(nav, args, maxNodes,
                                 [nodes |-> nodes, count |-> nodeCount,
                                  heap |-> heap, size |-> heapSize,
                                  last |-> lastBestNode,
                                  lastCost |-> lastBestNodeCost,
                                  oon |-> outOfNodes, failed |-> allocFailed],
                                 bestNode, link)} :
             /\ li' = link.next
             /\ nodes' = r.nodes
             /\ nodeCount' = r.count
             /\ heap' = r.heap
             /\ heapSize' = r.size
             /\ lastBestNode' = r.last
             /\ lastBestNodeCost' = r.lastCost
             /\ outOfNodes' = r.oon
             /\ allocFailed' = r.failed
             /\ pc' = "links"

\* after the loop: rebuild the corridor and set the status
FindPathFinish ==
  /\ pc = "finish"
  /\ LET g == getPathToNode(nodes, lastBestNode, args.maxPath, maxNodes + 1)
     IN result' = [path |-> g.path, pathCount |-> g.pathCount,
                   status |-> finishStatus(g.status, nodes[lastBestNode].id,
                                           args.endRef, outOfNodes)]
  /\ pc' = "done"
  /\ steps' = steps + 1
  /\ UNCHANGED <<navVars, maxNodes, nodes, nodeCount, heap, heapSize, args,
                 bestNode, li, lastBestNode, lastBestNodeCost, outOfNodes,
                 allocFailed, sp>>

\* the call's next step once it is past its entry
FindPathStep ==
  \/ FindPathPop
  \/ FindPathLink
  \/ FindPathFinish

NextPath ==
  \/ \E startRef \in RefsOf(nav), endRef \in RefsOf(nav), pp \in PosPairs,
        filter \in Filters, maxPath \in 1..MaxPathArg :
        FindPathBegin(startRef, endRef, pp[1], pp[2], filter, maxPath)
  \/ FindPathStep

SpecPath == InitPath /\ [][NextPath]_vars

\* ------------------------------------------------------------------------
\* Observers of the link pools
\* ------------------------------------------------------------------------
FreeChain(tile) == LinkChain(tile, tile.linksFreeList, Len(tile.links) + 1)
PolyChain(tile, k) == LinkChain(tile, tile.polys[k].firstLink, Len(tile.links) + 1)
SeqRange(sq) == {sq[i] : i \in DOMAIN sq}

RECURSIVE SumChains(_, _)
SumChains(tile, k) ==
  IF k = 0 THEN 0 ELSE Len(PolyChain(tile, k)) + SumChains(tile, k - 1)

\* the links of polygon k (1-based) of slot i
LinksOf(nm, i, k) ==
  {nm.tiles[i].links[l + 1] : l \in SeqRange(PolyChain(nm.tiles[i], k))}

\* ------------------------------------------------------------------------
\* Observers of a finished findPath call
\* ------------------------------------------------------------------------
Returned == pc = "done"

\* the call went through the search (not the argument check or the
\* startRef = endRef return)
Searched == pc = "done" /\ lastBestNode # 0

FirstRef == result.path[1]
LastRef == result.path[result.pathCount]

\* the whole corridor the search found: the refs on the pidx chain of
\* lastBestNode, start polygon first
Corridor ==
  LET chain == ParentChain(nodes, lastBestNode, maxNodes + 1)
  IN [i \in 1..Len(chain) |-> nodes[chain[Len(chain) - i + 1]].id]

HasLinkTo(r1, r2) ==
  \E lk \in LinksOf(nav, TileOfRef(r1), PolyOfRef(r1)) : lk.ref = r2

PolyAt(ref) == nav.tiles[TileOfRef(ref)].polys[PolyOfRef(ref)]

\* the heuristic findPath computed for node n when it first met it
HeuristicOf(n) ==
  IF nodes[n].id = args.endRef THEN 0
  ELSE HScaled(dtVdist(nodes[n].pos, args.endPos))

\* polygons reachable from the refs of S over links to polygons that pass
\* the filter
RECURSIVE ReachableFrom(_, _)
ReachableFrom(S, fuel) ==
  LET step == S \cup {lk.ref : lk \in UNION {LinksOf(nav, TileOfRef(r), PolyOfRef(r)) : r \in S}}
      kept == {r \in step : r \in S \/ passFilter(args.filter, PolyAt(r))}
  IN IF fuel = 0 \/ kept = S THEN S ELSE ReachableFrom(kept, fuel - 1)

EndUnreachable ==
  /\ isValidPolyRef(nav, args.startRef)
  /\ isValidPolyRef(nav, args.endRef)
  /\ args.endRef \notin ReachableFrom({args.startRef}, 2 * MaxTiles)

\* a polygon alone in its tile with no link at all
IsolatedPoly(ref) ==
  /\ nav.tiles[TileOfRef(ref)].header.polyCount = 1
  /\ LinksOf(nav, TileOfRef(ref), PolyOfRef(ref)) = {}

\* C1: in every returned path each ref is followed by a ref that one of its
\* polygon's links names, and that next polygon passes the filter.
C1_PathIsLinkedCorridor ==
  Returned =>
    \A i \in 1..(result.pathCount - 1) :
      /\ HasLinkTo(result.path[i], result.path[i + 1])
      /\ passFilter(args.filter, PolyAt(result.path[i + 1]))

\* a truncated partial path of at least two polygons returned by a search
\* that also ran out of nodes, under the filter that rejects some polygons
C1_Witness ==
  /\ Returned
  /\ result.pathCount >= 2
  /\ DT_PARTIAL_RESULT \in result.status
  /\ DT_OUT_OF_NODES \in result.status
  /\ DT_BUFFER_TOO_SMALL \in result.status
  /\ args.filter.excludeFlags # 0

\* C2 (as claimed): SUCCESS without PARTIAL_RESULT means the path runs from
\* startRef to endRef.
C2_CompletePathEndsAtGoal ==
  (Returned /\ DT_SUCCESS \in result.status /\ DT_PARTIAL_RESULT \notin result.status)
    => (FirstRef = args.startRef /\ LastRef = args.endRef)

\* C2 (amended): SUCCESS without PARTIAL_RESULT means the path starts at
\* startRef; it ends at endRef unless BUFFER_TOO_SMALL is set, and then it is
\* the first maxPath polygons of a corridor that ends at endRef.
C2_CompletePathUnlessTruncated ==
  (Returned /\ DT_SUCCESS \in result.status /\ DT_PARTIAL_RESULT \notin result.status)
    => /\ FirstRef = args.startRef
       /\ DT_BUFFER_TOO_SMALL \notin result.status => LastRef = args.endRef
       /\ DT_BUFFER_TOO_SMALL \in result.status =>
            /\ result.pathCount = args.maxPath
            /\ Corridor[Len(Corridor)] = args.endRef
            /\ \A i \in 1..result.pathCount : result.path[i] = Corridor[i]

\* the goal was reached over a corridor of three polygons and two were
\* returned
C2_Witness ==
  /\ Returned
  /\ result.status = {DT_SUCCESS, DT_BUFFER_TOO_SMALL}
  /\ result.pathCount = 2
  /\ Len(Corridor) = 3
  /\ LastRef # args.endRef

\* C3 (as claimed): PARTIAL_RESULT means the path runs from startRef to the
\* polygon of the best-so-far node, the node of smallest heuristic.
C3_PartialPathEndsAtBest ==
  (Returned /\ DT_PARTIAL_RESULT \in result.status)
    => /\ FirstRef = args.startRef
       /\ LastRef = nodes[lastBestNode].id
       /\ \A n \in 1..nodeCount : HeuristicOf(lastBestNode) <= HeuristicOf(n)

\* C3 (amended): PARTIAL_RESULT means the path starts at startRef and the
\* best-so-far node has the smallest heuristic of all nodes of the search;
\* the path ends at that node's polygon unless BUFFER_TOO_SMALL is set, and
\* then it is the first maxPath polygons of the corridor to that polygon.
C3_PartialPathUnlessTruncated ==
  (Returned /\ DT_PARTIAL_RESULT \in result.status)
    => /\ FirstRef = args.startRef
       /\ \A n \in 1..nodeCount : HeuristicOf(lastBestNode) <= HeuristicOf(n)
       /\ DT_BUFFER_TOO_SMALL \notin result.status => LastRef = nodes[lastBestNode].id
       /\ DT_BUFFER_TOO_SMALL \in result.status =>
            /\ result.pathCount = args.maxPath
            /\ \A i \in 1..result.pathCount : result.path[i] = Corridor[i]

\* a partial result whose best-so-far node is not the start node and beat
\* another node of the search
C3_Witness ==
  /\ Returned
  /\ DT_PARTIAL_RESULT \in result.status
  /\ DT_BUFFER_TOO_SMALL \notin result.status
  /\ nodes[lastBestNode].id # args.startRef
  /\ LastRef = nodes[lastBestNode].id
  /\ \E n \in 1..nodeCount : HeuristicOf(lastBestNode) < HeuristicOf(n)

\* C4 (as claimed): a corridor longer than maxPath is returned as its last
\* maxPath polygons, with BUFFER_TOO_SMALL.
C4_TruncationKeepsEnd ==
  (Searched /\ Len(Corridor) > args.maxPath)
    => /\ DT_BUFFER_TOO_SMALL \in result.status
       /\ result.pathCount = args.maxPath
       /\ \A i \in 1..args.maxPath :
            result.path[i] = Corridor[Len(Corridor) - args.maxPath + i]

\* C4 (amended): a corridor longer than maxPath is returned as its first
\* maxPath polygons (those nearest the start), with BUFFER_TOO_SMALL.
C4_TruncationKeepsStart ==
  (Searched /\ Len(Corridor) > args.maxPath)
    => /\ DT_BUFFER_TOO_SMALL \in result.status
       /\ result.pathCount = args.maxPath
       /\ \A i \in 1..args.maxPath : result.path[i] = Corridor[i]

\* a corridor of three polygons cut to two
C4_Witness ==
  /\ Searched
  /\ Len(Corridor) = 3
  /\ args.maxPath = 2
  /\ result.pathCount = 2
  /\ DT_BUFFER_TOO_SMALL \in result.status

\* C5: when endRef cannot be reached from startRef the call returns SUCCESS
\* and PARTIAL_RESULT, not FAILURE, with a non-empty path; when both polygons
\* are isolated the path is exactly <<startRef>>.
C5_UnreachableGoalIsPartial ==
  (Returned /\ EndUnreachable)
    => /\ DT_SUCCESS \in result.status
       /\ DT_PARTIAL_RESULT \in result.status
       /\ DT_FAILURE \notin result.status
       /\ result.pathCount >= 1
       /\ (IsolatedPoly(args.startRef) /\ IsolatedPoly(args.endRef))
            => (result.pathCount = 1 /\ result.path = <<args.startRef>>)

\* a search between two isolated polygons has returned
C5_Witness ==
  /\ Returned
  /\ EndUnreachable
  /\ IsolatedPoly(args.startRef)
  /\ IsolatedPoly(args.endRef)
  /\ result.path = <<args.startRef>>

\* most links a polygon of the mesh can have
MostLinks ==
  LET counts == {nav.tiles[i].header.maxLinkCount : i \in Installed(nav)}
  IN CHOOSE m \in counts : \A c \in counts : c <= m

\* steps of a call that opens every node once: the entry, per node a pop
\* and one pass per link plus the pass that ends the chain, the pop that
\* finds the queue empty, the exit
StepLimit == 3 + maxNodes * (2 + MostLinks)

\* C6: a call in which a node allocation failed still returns (it can always
\* take its next step until it has returned, and returns within StepLimit
\* steps), with OUT_OF_NODES and a non-empty path that starts at startRef; a
\* call in which no allocation failed returns without OUT_OF_NODES.
C6_OutOfNodesReported ==
  /\ Returned =>
       /\ allocFailed <=> DT_OUT_OF_NODES \in result.status
       /\ allocFailed => (result.pathCount >= 1 /\ FirstRef = args.startRef)
  /\ (allocFailed /\ ~Returned) => ENABLED FindPathStep
  /\ allocFailed => steps <= StepLimit

\* a call that failed to allocate a node returned a path of two polygons
C6_Witness ==
  /\ Returned
  /\ allocFailed
  /\ DT_OUT_OF_NODES \in result.status
  /\ result.pathCount >= 2

\* C7: for every installed tile, the links on the free list and the links on
\* the polygons' firstLink chains add up to maxLinkCount, and no link is on
\* the chains of two different polygons.
C7_LinkPoolAccounting ==
  \A i \in Installed(nav) :
    LET t == nav.tiles[i]
    IN /\ Len(FreeChain(t)) + SumChains(t, Len(t.polys)) = t.header.maxLinkCount
       /\ \A k1, k2 \in DOMAIN t.polys :
            k1 # k2 => SeqRange(PolyChain(t, k1)) \cap SeqRange(PolyChain(t, k2)) = {}

\* a tile that was stitched to a tile installed after it, with links of its
\* pool both in use and free
C7_Witness ==
  /\ addRes = "ok"
  /\ \E i \in Installed(nav), j \in Installed(nav) :
       /\ i < j
       /\ \E k \in DOMAIN nav.tiles[i].polys :
            \E lk \in LinksOf(nav, i, k) :
              lk.side # INTERNAL_SIDE /\ TileOfRef(lk.ref) = j
       /\ FreeChain(nav.tiles[i]) # <<>>

\* C8 (as claimed): every external link A.i --dir--> B.j has the reciprocal
\* link B.j --opposite(dir)--> A.i.
C8_ReciprocalExtLinks ==
  \A i \in Installed(nav) :
    \A k \in DOMAIN nav.tiles[i].polys :
      \A lk \in LinksOf(nav, i, k) :
        lk.side # INTERNAL_SIDE =>
          \E back \in LinksOf(nav, TileOfRef(lk.ref), PolyOfRef(lk.ref)) :
            /\ back.ref = PolyRefOf(nav, i, k)
            /\ back.side = dtOppositeTile(lk.side)

\* C9 (as claimed): an addTile call that does not report success leaves the
\* NavMesh as it was.
C9_FailedAddChangesNothing ==
  addRes \in {"fail", "error"} => nav = navBefore

\* C10: at most one installed tile per (tileX, tileY, layer), and a blob for
\* an occupied (tileX, tileY, layer) is refused and the mesh stays as it was.
SameLocation(h, b) == h.x = b.x /\ h.y = b.y /\ h.layer = b.layer

WellFormed(blob) ==
  /\ blob.magic = MMAP_MAGIC
  /\ blob.mmapVer = MMAP_VERSION
  /\ blob.navMagic = DT_NAVMESH_MAGIC
  /\ blob.navVersion = DT_NAVMESH_VERSION

C10_OneTilePerLocation ==
  /\ \A i, j \in Installed(nav) :
       i # j => ~SameLocation(nav.tiles[i].header, nav.tiles[j].header)
  /\ (/\ addRes # "none"
      /\ WellFormed(addBlob)
      /\ \E i \in Installed(navBefore) :
           SameLocation(navBefore.tiles[i].header, addBlob))
     => (addRes = "fail" /\ nav = navBefore)

\* a different tile for an occupied location was offered and refused while
\* the occupying tile was not at the head of its hash chain
C10_Witness ==
  /\ addRes = "fail"
  /\ addMsg = "tile already occupied"
  /\ \E i \in Installed(nav) :
       /\ SameLocation(nav.tiles[i].header, addBlob)
       /\ nav.tiles[i].polys # addBlob.polys
       /\ nav.posLookup[computeTileHash(addBlob.x, addBlob.y, TileLutMask)] # i

\* C11 (as claimed): addTile on a blob cut short at any byte offset returns
\* a failure result; it neither raises a runtime error nor reports success.
C11_TruncatedBlobFails ==
  (addRes # "none" /\ addLen < BlobSize(addBlob)) => addRes = "fail"

\* the internal links of polygon k (1-based) of tile t that sit on edge j
IntLinksOn(t, k, j) ==
  {l \in SeqRange(PolyChain(t, k)) :
     t.links[l + 1].side = INTERNAL_SIDE /\ t.links[l + 1].edge = j}

\* C12 (as claimed): after a successful addTile every ground polygon of the
\* new tile has exactly one internal link, to polygon nei - 1 of the tile,
\* on each edge j with 0 < neis[j] <= polyCount, and none on any other edge.
C12_InternalLinksPerEdge ==
  addRes = "ok" =>
    LET t == nav.tiles[navBefore.nextFree]
    IN \A k \in DOMAIN t.polys :
         t.polys[k].areaAndtype \div 64 # 1 =>
           \A j \in 0..(t.polys[k].vertCount - 1) :
             LET nei == t.polys[k].neis[j + 1]
             IN IF 0 < nei /\ nei <= t.header.polyCount
                THEN /\ Cardinality(IntLinksOn(t, k, j)) = 1
                     /\ \A l \in IntLinksOn(t, k, j) :
                          t.links[l + 1].ref = RefAdd(getPolyRefBase(t), nei - 1)
                ELSE IntLinksOn(t, k, j) = {}

\* the heap positions that hold node n
HeapSlotsOf(n) == {p \in 1..heapSize : heap[p] = n}
IsOpen(n) == nodes[n].flags % 2 = 1
IsClosed(n) == (nodes[n].flags \div 2) % 2 = 1

\* C13: at every point of a findPath search, a node with the OPEN flag sits
\* in the open queue at its stored heap index: heap[node.hidx] == node.
C13_OpenNodeAtItsHeapIndex ==
  \A n \in 1..nodeCount :
    IsOpen(n) => /\ nodes[n].hidx \in 1..heapSize
                 /\ heap[nodes[n].hidx] = n

\* an open node sits below the root while another node is being expanded
C13_Witness ==
  /\ pc = "links"
  /\ heapSize >= 2
  /\ \E n \in 1..nodeCount : IsOpen(n) /\ nodes[n].hidx = 2 /\ heap[2] = n

\* C14: throughout a findPath search every allocated node is unvisited (no
\* flag, not in the heap), OPEN (in the heap at exactly one position) or
\* CLOSED (not in the heap); never OPEN and CLOSED together, never in the
\* heap without the OPEN flag.
C14_NodeStatePartition ==
  \A n \in 1..nodeCount :
    /\ ~(IsOpen(n) /\ IsClosed(n))
    /\ IsOpen(n) => Cardinality(HeapSlotsOf(n)) = 1
    /\ ~IsOpen(n) => HeapSlotsOf(n) = {}

\* a search holding a closed node and two open nodes at once
C14_Witness ==
  /\ pc \in {"loop", "links"}
  /\ \E c, o1, o2 \in 1..nodeCount :
       /\ o1 # o2
       /\ IsClosed(c) /\ IsOpen(o1) /\ IsOpen(o2)

\* ------------------------------------------------------------------------
\* The open queue on its own: push, pop and modify in any order, on a pool
\* of QueueNodes nodes with totals 0..MaxTotal, under the protocol findPath
\* follows (push a node that is not OPEN, modify an OPEN node after its
\* total was lowered, close the popped node).  steps counts the operations,
\* up to MaxOps.
\* ------------------------------------------------------------------------
QueueNodes == 4
MaxTotal == 2
MaxOps == 6

InitQueue ==
  /\ nav = NewNavMesh
  /\ addRes = "none"
  /\ addMsg = ""
  /\ addBlob = BlobFar
  /\ addLen = BlobSize(BlobFar)
  /\ navBefore = NewNavMesh
  /\ maxNodes = QueueNodes
  /\ nodes = [i \in 1..maxNodes |-> BlankNode]
  /\ nodeCount = maxNodes
  /\ heap = [i \in 1..maxNodes |-> 0]
  /\ heapSize = 0
  /\ pc = "idle"
  /\ args = BlankArgs
  /\ bestNode = 0
  /\ li = DT_NULL_LINK
  /\ lastBestNode = 0
  /\ lastBestNodeCost = 0
  /\ outOfNodes = FALSE
  /\ result = NoResult
  /\ allocFailed = FALSE
  /\ steps = 0
  /\ sp = BlankStraight

queueFrame == <<navVars, maxNodes, nodeCount, pc, args, li, lastBestNode,
                lastBestNodeCost, outOfNodes, result, allocFailed, sp>>

\* "neighbourNode.total = total; neighbourNode.flags = nf + DT_NODE_OPEN;
\* _openList:push(neighbourNode)"
QueuePushNode(n, total) ==
  /\ steps < MaxOps
  /\ steps' = steps + 1
  /\ ~IsOpen(n)
  /\ \E r \in {QueuePush([heap |-> heap,
                          nodes |-> [nodes EXCEPT ![n].total = total,
                                                  ![n].flags = DT_NODE_OPEN]],
                         heapSize, n)} :
       /\ nodes' = r.nodes
       /\ heap' = r.heap
       /\ heapSize' = r.size
  /\ UNCHANGED <<queueFrame, bestNode>>

\* "local bestNode = _openList:pop(); bestNode.flags = DT_NODE_CLOSED"
QueuePopNode ==
  /\ steps < MaxOps
  /\ steps' = steps + 1
  /\ heapSize > 0
  /\ \E r \in {QueuePop([heap |-> heap, nodes |-> nodes], heapSize)} :
       /\ nodes' = [r.nodes EXCEPT ![r.top].flags = DT_NODE_CLOSED]
       /\ heap' = r.heap
       /\ heapSize' = r.size
       /\ bestNode' = r.top
  /\ UNCHANGED queueFrame

\* "neighbourNode.total = total; _openList:modify(neighbourNode)", reached
\* only past "if nf % 2 ~= 0 and total >= neighbourNode.total then break"
QueueModifyNode(n, total) ==
  /\ steps < MaxOps
  /\ steps' = steps + 1
  /\ IsOpen(n)
  /\ total < nodes[n].total
  /\ \E r \in {QueueModify([heap |-> heap,
                            nodes |-> [nodes EXCEPT ![n].total = total]], n)} :
       /\ nodes' = r.nodes
       /\ heap' = r.heap
  /\ UNCHANGED <<queueFrame, heapSize, bestNode>>

NextQueue ==
  \/ \E n \in 1..QueueNodes : \E total \in 0..MaxTotal : QueuePushNode(n, total)
  \/ QueuePopNode
  \/ \E n \in 1..QueueNodes : \E total \in 0..MaxTotal : QueueModifyNode(n, total)

SpecQueue == InitQueue /\ [][NextQueue]_vars

\* C15: after any sequence of push, pop and modify (modify only after the
\* node's total was lowered) the heap root has the minimum total of the
\* nodes in the heap, and every pop returns a minimum-total OPEN node.
C15_PopReturnsMinimum ==
  /\ [](\A p \in 1..heapSize : nodes[heap[1]].total <= nodes[heap[p]].total)
  /\ [][heapSize' < heapSize =>
          \A n \in 1..nodeCount :
            IsOpen(n) => nodes[bestNode'].total <= nodes[n].total]_vars

\* after a pop, a heap of three or more whose smaller child is the right one
C15_Witness ==
  /\ bestNode # 0
  /\ heapSize >= 3
  /\ nodes[heap[3]].total < nodes[heap[2]].total

\* ------------------------------------------------------------------------
\* findPath as one call, on a pool and a queue that earlier calls have used
\* ------------------------------------------------------------------------
\* the inner loop: the links of bestNode's polygon from link index l on
RECURSIVE SearchLinks(_, _, _, _, _, _)
SearchLinks(nm, a, cap, s, best, l) ==
  IF l = DT_NULL_LINK THEN s
  ELSE SearchLinks(nm, a, cap,
                   VisitLink(nm, a, cap, s, best,
                             nm.tiles[TileOfRef(s.nodes[best].id)].links[l + 1]),
                   best,
                   nm.tiles[TileOfRef(s.nodes[best].id)].links[l + 1].next)

\* pop() and "bestNode.flags = DT_NODE_CLOSED"
Popped(s, p) ==
  [s EXCEPT !.nodes = [p.nodes EXCEPT ![p.top].flags = DT_NODE_CLOSED],
            !.heap = p.heap, !.size = p.size]

\* the outer loop "while not _openList:empty()"
RECURSIVE SearchLoop(_, _, _, _)
SearchFrom(nm, a, cap, s, top) ==
  IF s.nodes[top].id = a.endRef THEN [s EXCEPT !.last = top]
  ELSE SearchLoop(nm, a, cap,
                  SearchLinks(nm, a, cap, s, top,
                              nm.tiles[TileOfRef(s.nodes[top].id)]
                                .polys[PolyOfRef(s.nodes[top].id)].firstLink))

SearchLoop(nm, a, cap, s) ==
  IF s.size = 0 THEN s
  ELSE SearchFrom(nm, a, cap,
                  Popped(s, QueuePop([heap |-> s.heap, nodes |-> s.nodes], s.size)),
                  s.heap[1])

\* the search state once the start node is pushed; g is getNode's answer
Started(a, hp, g) ==
  LET total == HScaled(dtVdist(a.startPos, a.endPos))
      pushed == QueuePush([heap |-> hp,
                           nodes |-> [g.nodes EXCEPT ![g.idx].pos = a.startPos,
                                                     ![g.idx].pidx = 0,
                                                     ![g.idx].cost = 0,
                                                     ![g.idx].total = total,
                                                     ![g.idx].id = a.startRef,
                                                     ![g.idx].flags = DT_NODE_OPEN]],
                          0, g.idx)
  IN [nodes |-> pushed.nodes, count |-> g.count, heap |-> pushed.heap,
      size |-> pushed.size, last |-> g.idx, lastCost |-> total,
      oon |-> FALSE, failed |-> FALSE]

\* what findPath returns, with the search state it leaves behind.  With
\* maxPath < 0 the trim loop of _getPathToNode steps past the start node
\* and indexes nil: a runtime error, status {"error"}.
Finished(a, cap, s) ==
  LET g == getPathToNode(s.nodes, s.last, a.maxPath, cap + 1)
  IN IF a.maxPath < 0
     THEN [s |-> s,
           result |-> [path |-> <<>>, pathCount |-> 0, status |-> {"error"}]]
     ELSE [s |-> s,
           result |-> [path |-> g.path, pathCount |-> g.pathCount,
                       status |-> finishStatus(g.status, s.nodes[s.last].id,
                                               a.endRef, s.oon)]]

\* findPath(startRef, endRef, startPos, endPos, filter, maxPath) on a query
\* whose pool holds ns and whose queue holds hp; s0 is the search state the
\* early returns leave untouched
findPath(nm, a, cap, s0) ==
  IF ~isValidPolyRef(nm, a.startRef) \/ ~isValidPolyRef(nm, a.endRef)
  THEN [s |-> s0,
        result |-> [path |-> <<>>, pathCount |-> 0,
                    status |-> {DT_FAILURE, DT_INVALID_PARAM}]]
  ELSE IF a.startRef = a.endRef
  THEN [s |-> s0,
        result |-> [path |-> <<a.startRef>>, pathCount |-> 1,
                    status |-> {DT_SUCCESS}]]
  ELSE Finished(a, cap,
                SearchLoop(nm, a, cap,
                           Started(a, s0.heap,
                                   getNode(s0.nodes, 0, cap, a.startRef, 0))))

\* a query nothing has searched with
FreshSearch(cap) ==
  [nodes |-> [i \in 1..cap |-> BlankNode], count |-> 0,
   heap |-> [i \in 1..cap |-> 0], size |-> 0, last |-> 0, lastCost |-> 0,
   oon |-> FALSE, failed |-> FALSE]

\* the findPath calls made on the mesh nm
AgainArgs(nm) ==
  {[startRef |-> startRef, endRef |-> endRef, startPos |-> pp[1],
    endPos |-> pp[2], filter |-> filter, maxPath |-> MaxPathArg] :
     startRef \in RefsOf(nm), endRef \in RefsOf(nm), pp \in PosPairs,
     filter \in Filters}

\* a query that has not searched yet or has made one findPath call: the
\* pool and the queue are as that call left them
InitAgain ==
  /\ nav \in Meshes
  /\ addRes = "ok"
  /\ addMsg = ""
  /\ addBlob = BlobFar
  /\ addLen = BlobSize(BlobFar)
  /\ navBefore = nav
  /\ maxNodes \in {2, MaxNodesBound}
  /\ \E s \in {FreshSearch(maxNodes)}
              \cup {findPath(nav, a, maxNodes, FreshSearch(maxNodes)).s :
                      a \in AgainArgs(nav)} :
       /\ nodes = s.nodes
       /\ nodeCount = s.count
       /\ heap = s.heap
       /\ heapSize = s.size
       /\ lastBestNode = s.last
       /\ lastBestNodeCost = s.lastCost
       /\ outOfNodes = s.oon
  /\ pc = "idle"
  /\ args = BlankArgs
  /\ bestNode = 0
  /\ li = DT_NULL_LINK
  /\ result = NoResult
  /\ allocFailed = FALSE
  /\ steps = 0
  /\ sp = BlankStraight

\* one whole findPath call; steps counts the calls
FindPathCall(a) ==
  /\ steps' = steps + 1
  /\ args' = a
  /\ pc' = "done"
  /\ \E r \in {findPath(nav, a, maxNodes,
                        [nodes |-> nodes, count |-> nodeCount, heap |-> heap,
                         size |-> heapSize, last |-> lastBestNode,
                         lastCost |-> lastBestNodeCost, oon |-> outOfNodes,
                         failed |-> FALSE])} :
       /\ nodes' = r.s.nodes
       /\ nodeCount' = r.s.count
       /\ heap' = r.s.heap
       /\ heapSize' = r.s.size
       /\ lastBestNode' = r.s.last
       /\ lastBestNodeCost' = r.s.lastCost
       /\ outOfNodes' = r.s.oon
       /\ allocFailed' = r.s.failed
       /\ result' = r.result
  /\ UNCHANGED <<navVars, maxNodes, bestNode, li, sp>>

NextAgain == pc = "idle" /\ \E a \in AgainArgs(nav) : FindPathCall(a)

SpecAgain == InitAgain /\ [][NextAgain]_vars

\* C16: what a findPath call returns depends only on the mesh and the
\* call's arguments: it is what a query that never searched returns, so no
\* node field or queue slot left by an earlier call is read.
C16_ResultIgnoresEarlierCalls ==
  pc = "done" =>
    result = findPath(nav, args, maxNodes, FreshSearch(maxNodes)).result

\* a call found a path on a pool in which the call before it had used
\* more nodes
C16_Witness ==
  /\ pc = "done"
  /\ DT_SUCCESS \in result.status
  /\ result.pathCount >= 2
  /\ nodeCount < maxNodes
  /\ nodes[nodeCount + 1].id # NullRef

\* C17 (as claimed): the node of a neighbour reached over a link is held
\* under state link.side \div 2 when link.side # 0xff and under state 0
\* otherwise, for every side 0..7.
C17_NodeStateIsHalfSide ==
  \A n \in 1..nodeCount :
    nodes[n].pidx # 0 =>
      \E lk \in LinksOf(nav, TileOfRef(nodes[nodes[n].pidx].id),
                         PolyOfRef(nodes[nodes[n].pidx].id)) :
        /\ lk.ref = nodes[n].id
        /\ nodes[n].state = IF lk.side # INTERNAL_SIDE THEN lk.side \div 2 ELSE 0

\* ------------------------------------------------------------------------
\* Calls of findPath and findStraightPath, in any order, on one query
\* ------------------------------------------------------------------------
\* a point inside polygon 1 of the cell (0, 0) and two points west of it
\* that have the same nearest boundary point
StraightPoints ==
  { <<100, 0, 50>>, <<0 - 50, 0, 50>>, <<0 - 80, 0, 50>> }

\* start points: the first two of those and a point on the edge between
\* the two polygons of the cell (0, 0); end points: the first and the last
\* of those, a point in the cell (1, 0) and one in polygon 2 of the cell
\* (0, 0)
StartPoints == { <<100, 0, 50>>, <<0 - 50, 0, 50>>, <<50, 0, 100>> }
EndPoints == { <<100, 0, 50>>, <<0 - 80, 0, 50>>, <<300, 0, 50>>, <<100, 0, 150>> }

\* the corridors handed to findStraightPath: none, or one installed polygon
CorridorsOf(nm) == {<<>>} \cup {<<r>> : r \in {q \in RefsOf(nm) : isValidPolyRef(nm, q)}}

\* longest corridor handed to findStraightPath
MaxCorridor == 3

\* corridors of up to MaxCorridor different refs, each the ref of an
\* installed polygon or the null ref, linked or not
RECURSIVE CorridorsUpTo(_, _)
CorridorsUpTo(nm, n) ==
  IF n = 0 THEN {<<>>}
  ELSE LET shorter == CorridorsUpTo(nm, n - 1)
           refs == {q \in RefsOf(nm) : isValidPolyRef(nm, q) \/ q = NullRef}
       IN shorter \cup
            {Append(x[1], x[2]) :
               x \in {y \in {d \in shorter : Len(d) = n - 1} \X refs :
                        \A k \in 1..(n - 1) : y[1][k] # y[2]}}

\* options handed to findStraightPath: none, DT_STRAIGHTPATH_AREA_CROSSINGS,
\* DT_STRAIGHTPATH_ALL_CROSSINGS
StraightOptions == {0, 1, 2}

\* most calls made on one query
MaxCalls == 2

InitCalls ==
  /\ nav \in Meshes
  /\ addRes = "ok"
  /\ addMsg = ""
  /\ addBlob = BlobFar
  /\ addLen = BlobSize(BlobFar)
  /\ navBefore = nav
  /\ maxNodes = MaxNodesBound
  /\ QueryIdle

\* one whole findStraightPath call
FindStraightPathCall(startPos, endPos, path, pathSize, maxStraight, options) ==
  /\ steps' = steps + 1
  /\ args' = [startPos |-> startPos, endPos |-> endPos, path |-> path,
              pathSize |-> pathSize, maxStraight |-> maxStraight,
              options |-> options]
  /\ pc' = "done"
  /\ \E r \in {findStraightPath(nav, sp, startPos, endPos, path, pathSize,
                                 maxStraight, options)} :
       /\ sp' = r.sp
       /\ result' = [path |-> <<>>, pathCount |-> r.count, status |-> r.status,
                     seen |-> r.seen]
  /\ UNCHANGED <<navVars, maxNodes, nodes, nodeCount, heap, heapSize, bestNode,
                 li, lastBestNode, lastBestNodeCost, outOfNodes, allocFailed>>

\* findPath and findStraightPath calls in any order, MaxCalls of them
NextCalls ==
  \/ \E startRef \in RefsOf(nav), endRef \in RefsOf(nav),
        maxPath \in {0 - 1, 0, MaxPathArg} :
        /\ steps < MaxCalls
        /\ FindPathCall([startRef |-> startRef, endRef |-> endRef,
                         startPos |-> <<100, 0, 50>>, endPos |-> <<300, 0, 100>>,
                         filter |-> [includeFlags |-> 65535, excludeFlags |-> 0,
                                     areaCost |-> <<1, 1>>],
                         maxPath |-> maxPath])
  \/ \E startPos \in StraightPoints, endPos \in StraightPoints,
        path \in CorridorsOf(nav), pathSize \in 0..1,
        maxStraight \in 1..MaxStraight :
        /\ steps < MaxCalls
        /\ FindStraightPathCall(startPos, endPos, path, pathSize, maxStraight, 0)

SpecCalls == InitCalls /\ [][NextCalls]_vars

\* a query whose straight-path buffers are new or as one findStraightPath
\* call left them
InitStraight ==
  /\ nav \in Meshes
  /\ addRes = "ok"
  /\ addMsg = ""
  /\ addBlob = BlobFar
  /\ addLen = BlobSize(BlobFar)
  /\ navBefore = nav
  /\ maxNodes = MaxNodesBound
  /\ nodes = [i \in 1..maxNodes |-> BlankNode]
  /\ nodeCount = 0
  /\ heap = [i \in 1..maxNodes |-> 0]
  /\ heapSize = 0
  /\ pc = "idle"
  /\ args = BlankArgs
  /\ bestNode = 0
  /\ li = DT_NULL_LINK
  /\ lastBestNode = 0
  /\ lastBestNodeCost = 0
  /\ outOfNodes = FALSE
  /\ result = NoResult
  /\ allocFailed = FALSE
  /\ steps = 0
  /\ sp \in {BlankStraight}
             \cup {findStraightPath(nav, BlankStraight, <<0 - 50, 0, 50>>,
                                     <<100, 0, 150>>, c, 1, MaxStraight, 0).sp :
                     c \in CorridorsOf(nav) \ {<<>>}}

NextStraight ==
  \E startPos \in StartPoints, endPos \in EndPoints,
     path \in CorridorsUpTo(nav, MaxCorridor),
     maxStraight \in 1..MaxStraight, options \in StraightOptions :
     /\ pc = "idle"
     /\ FindStraightPathCall(startPos, endPos, path, Len(path), maxStraight,
                             options)

SpecStraight == InitStraight /\ [][NextStraight]_vars

\* C18 (as claimed): a findPath or findStraightPath call that is rejected
\* for invalid arguments leaves the node pool, the open queue, the query's
\* output and scratch buffers and the NavMesh as they were before the call.
C18_RejectedCallChangesNothing ==
  [][(steps' = steps + 1 /\ DT_INVALID_PARAM \in result'.status) =>
       UNCHANGED <<nav, nodes, nodeCount, heap, heapSize, sp>>]_vars

\* C19 (as claimed): findPath with maxPath <= 0 returns FAILURE and
\* INVALID_PARAM and no path, whatever the other arguments are.
C19_NonPositiveMaxPathRejected ==
  (pc = "done" /\ "maxPath" \in DOMAIN args /\ args.maxPath <= 0) =>
    /\ {DT_FAILURE, DT_INVALID_PARAM} \subseteq result.status
    /\ result.pathCount = 0

\* the last call was findStraightPath on a corridor of one polygon with
\* room for two vertices
OnePolyStraight ==
  /\ pc = "done"
  /\ "pathSize" \in DOMAIN args
  /\ args.pathSize = 1
  /\ Len(args.path) = 1
  /\ args.maxStraight >= 2

\* C20 (as claimed): for a corridor of one polygon and maxStraightPath >= 2
\* findStraightPath returns exactly two vertices, the clamped start tagged
\* START and the clamped end tagged END.
C20_TwoVertices ==
  OnePolyStraight =>
    /\ result.pathCount = 2
    /\ sp.pos[1] = closestPointOnPolyBoundary(nav, args.path[1], args.startPos)
    /\ sp.flags[1] = DT_STRAIGHTPATH_START
    /\ sp.pos[2] = closestPointOnPolyBoundary(nav, args.path[1], args.endPos)
    /\ sp.flags[2] = DT_STRAIGHTPATH_END

\* C20: ... it returns the clamped start tagged START and the clamped end
\* tagged END when the two clamped points differ; when they are equal it
\* returns that one point, tagged END.
C20_TwoVerticesUnlessEqual ==
  OnePolyStraight =>
    LET cs == closestPointOnPolyBoundary(nav, args.path[1], args.startPos)
        ce == closestPointOnPolyBoundary(nav, args.path[1], args.endPos)
    IN /\ DT_SUCCESS \in result.status
       /\ result.pathCount = sp.count
       /\ sp.pos[1] = cs
       /\ IF dtVequal(cs, ce)
          THEN /\ sp.count = 1
               /\ sp.flags[1] = DT_STRAIGHTPATH_END
          ELSE /\ sp.count = 2
               /\ sp.flags[1] = DT_STRAIGHTPATH_START
               /\ sp.refs[1] = args.path[1]
               /\ sp.pos[2] = ce
               /\ sp.flags[2] = DT_STRAIGHTPATH_END

\* a start outside the polygon was clamped to its boundary and the end,
\* inside it, was kept
C20_Witness ==
  /\ OnePolyStraight
  /\ sp.count = 2
  /\ sp.pos[1] # args.startPos
  /\ sp.pos[2] = args.endPos

\* ------------------------------------------------------------------------
\* encodePolyId / decodePolyId on the whole range of salt, tile and polygon
\* index.  The two functions compute on Lua numbers, which are IEEE doubles
\* with a 53-bit significand.  A number that holds an integer below 2^64 is
\* kept here as four digits <<d3, d2, d1, d0>> in base 2^16.
\* ------------------------------------------------------------------------
DT_SALT_BITS == 16
DIGIT == Pow2(DT_SALT_BITS)

\* floor(log2(v)) for v >= 1
RECURSIVE Log2(_)
Log2(v) == IF v <= 1 THEN 0 ELSE 1 + Log2(v \div 2)

\* carries propagated upwards; the top digit may reach 2^16 (the value 2^64)
CarryDigits(d) ==
  LET c0 == d[4] \div DIGIT
      e1 == d[3] + c0
      c1 == e1 \div DIGIT
      e2 == d[2] + c1
      c2 == e2 \div DIGIT
  IN <<d[1] + c2, e2 % DIGIT, e1 % DIGIT, d[4] % DIGIT>>

\* the nearest double of an integer below 2^64, ties to the even significand:
\* below 2^53 every integer is a double; from 2^e on (e >= 53) the doubles
\* are the multiples of 2^(e-52)
RoundToDouble(d) ==
  IF d[1] < 32 THEN d
  ELSE LET ulp == Pow2(Log2(d[1]) - 4)
           q == d[4] \div ulp
           r == d[4] % ulp
           up == IF 2 * r > ulp \/ (2 * r = ulp /\ q % 2 = 1) THEN 1 ELSE 0
       IN CarryDigits(<<d[1], d[2], d[3], (q + up) * ulp>>)

\* salt * DT_SALT_SHIFT + it * DT_TILE_SHIFT + ip: the two products and
\* their sum are multiples of 2^20 below 2^64 and exact; adding ip rounds
encodePolyIdNumber(salt, it, ip) ==
  RoundToDouble(CarryDigits(<<salt, it \div 4096,
                              (it % 4096) * 16 + (ip \div DIGIT), ip % DIGIT>>))

\* ip = ref % 2^20; rest = (ref - ip) / 2^20; it = rest % 2^28;
\* salt = (rest - it) / 2^28: all exact on a double that holds an integer
decodePolyIdNumber(ref) ==
  [salt |-> ref[1],
   it |-> ref[2] * 4096 + (ref[3] \div 16),
   ip |-> (ref[3] % 16) * DIGIT + ref[4]]

Salts == {0, 1, 31, 32, 33, 64, 1000, DIGIT - 1}
TileIndices == {0, 1, 4095, DT_TILE_MASK1 - 1}
PolyIndices == {0, 1, 2, 3, DIGIT, DT_TILE_SHIFT - 2, DT_TILE_SHIFT - 1}

\* encodePolyId applied to a triple, decodePolyId to what it returned
EncodeDecode(salt, it, ip) ==
  /\ pc = "idle"
  /\ pc' = "decoded"
  /\ args' = [salt |-> salt, it |-> it, ip |-> ip]
  /\ \E ref \in {encodePolyIdNumber(salt, it, ip)} :
       result' = [ref |-> ref, back |-> decodePolyIdNumber(ref)]
  /\ UNCHANGED <<navVars, maxNodes, nodes, nodeCount, heap, heapSize, bestNode,
                 li, lastBestNode, lastBestNodeCost, outOfNodes, allocFailed,
                 steps, sp>>

NextRef ==
  \E salt \in Salts, it \in TileIndices, ip \in PolyIndices :
    EncodeDecode(salt, it, ip)

SpecRef == InitNav /\ [][NextRef]_vars

\* C27 (as claimed): for every salt below 2^16, tile index below 2^28 and
\* polygon index below 2^20, decoding the encoded PolyRef gives back the
\* same salt, tile index and polygon index.
C27_DecodeInvertsEncode ==
  pc = "decoded" => result.back = args

\* ------------------------------------------------------------------------
\* Termination of findPath
\* ------------------------------------------------------------------------
\* the call is inside findPath: past its entry and not yet returned
Running == pc \in {"loop", "links", "finish"}

\* the pidx chain from node n visits no node twice and ends at the start
\* node, the first node of the pool
ChainEndsAtStart(n) ==
  LET chain == ParentChain(nodes, n, maxNodes + 1)
  IN /\ Len(chain) <= nodeCount
     /\ chain[Len(chain)] = 1
     /\ nodes[1].pidx = 0
     /\ nodes[1].id = args.startRef
     /\ \A i \in 1..Len(chain), j \in 1..Len(chain) :
          chain[i] = chain[j] => i = j

\* C29: a findPath call ends.  Inside the call at most StepLimit steps are
\* taken (every step is a pop, one link of the popped node, or the exit); a
\* step changes the total of a node that was already visited only to a
\* strictly smaller one; and the pidx chain from every visited node, the
\* final node included, is acyclic and ends at the start node.
C29_FindPathTerminates ==
  /\ [](Running => steps <= StepLimit)
  /\ [](Running => \A n \in 1..nodeCount : ChainEndsAtStart(n))
  /\ [][Running =>
         \A n \in 1..nodeCount :
           (nodes[n].flags # 0 /\ nodes'[n].total # nodes[n].total) =>
             nodes'[n].total < nodes[n].total]_vars

\* a call has returned a complete path after it gave a visited node a new
\* parent: a node's first parent is older than the node, this one is younger
C29_Witness ==
  /\ pc = "done"
  /\ DT_SUCCESS \in result.status
  /\ DT_PARTIAL_RESULT \notin result.status
  /\ \E n \in 1..nodeCount : nodes[n].pidx > n

\* ------------------------------------------------------------------------
\* findStraightPath over corridors of several polygons
\* ------------------------------------------------------------------------
\* the last call was findStraightPath and it fetched a portal
StraightFetched ==
  /\ pc = "done"
  /\ "options" \in DOMAIN args
  /\ result.seen # {}

\* the corridor index of the last portal it fetched
LastFetched == CHOOSE i \in result.seen : \A k \in result.seen : k <= i

\* that portal could not be had: path[i] has no link to path[i+1]
PortalMissing ==
  /\ StraightFetched
  /\ "error" \notin result.status
  /\ ~getPortalPoints(nav, args.path[LastFetched], args.path[LastFetched + 1]).ok

\* C21 (as claimed): when the portal between path[i] and path[i+1] cannot
\* be had, the returned straight path ends with a vertex tagged END at the
\* end point clamped to path[i], and the status has PARTIAL_RESULT.
C21_FailedPortalEndsWithEnd ==
  PortalMissing =>
    /\ DT_PARTIAL_RESULT \in result.status
    /\ sp.pos[sp.count] = clampToPoly(nav, args.path[LastFetched], args.endPos).pt
    /\ sp.flags[sp.count] = DT_STRAIGHTPATH_END

\* C21: ... the returned straight path ends with a vertex at the end point
\* clamped to path[i]; the vertex carries no flag (not END) and the ref
\* path[i]; the status is SUCCESS with PARTIAL_RESULT.
C21_FailedPortalEndsUntagged ==
  PortalMissing =>
    /\ {DT_SUCCESS, DT_PARTIAL_RESULT} \subseteq result.status
    /\ result.pathCount = sp.count
    /\ sp.pos[sp.count] = clampToPoly(nav, args.path[LastFetched], args.endPos).pt
    /\ sp.flags[sp.count] = 0
    /\ sp.refs[sp.count] = args.path[LastFetched]

\* the second portal of a corridor of installed polygons was missing and the
\* end point was moved onto the second polygon
C21_Witness ==
  /\ PortalMissing
  /\ LastFetched = 2
  /\ \A k \in 1..args.pathSize : isValidPolyRef(nav, args.path[k])
  /\ sp.count >= 2
  /\ sp.pos[sp.count] # args.endPos

\* C28 (as claimed): findStraightPath never returns more than maxStraightPath
\* vertices, whatever the corridor, the options and maxStraightPath >= 1.
C28_AtMostMaxStraight ==
  (pc = "done" /\ "options" \in DOMAIN args) =>
    /\ sp.count <= args.maxStraight
    /\ result.pathCount <= args.maxStraight

\* the clamped start point lies on the first portal of a corridor of three
\* polygons or more, and the call got as far as the funnel
StartOnFirstPortal ==
  /\ StraightFetched
  /\ "error" \notin result.status
  /\ args.pathSize >= 3
  /\ LET pp == getPortalPoints(nav, args.path[1], args.path[2])
     IN /\ pp.ok
        /\ dtDistancePtSegSqr2D(clampToPoly(nav, args.path[1], args.startPos).pt,
                                pp.left, pp.right).d = 0

\* C30 (as claimed): when the clamped start point lies within 0.001 of the
\* first portal, only that portal is skipped: the portal between the second
\* and the third polygon of the corridor is still fetched by the funnel.
C30_SecondPortalExamined ==
  StartOnFirstPortal => 2 \in result.seen

\* ------------------------------------------------------------------------
\* queryPolygonsInTile on a tile with a bounding-volume tree.  A node is
\* [bmin, bmax, i]: i >= 0 names the polygon of a leaf, i < 0 is the negated
\* escape index of an inner node.  Boxes of nodes are in quantized units,
\* query boxes and the tile bounds in fixed point.
\* ------------------------------------------------------------------------
DT_QUANT_MAX == 65535
DT_POLYTYPE_OFFMESH_CONNECTION == 1

dtClamp(v, lo, hi) == IF v < lo THEN lo ELSE IF v > hi THEN hi ELSE v

\* v is a fixed-point offset from the tile's bmin, never negative
quantMinF(qfac, v) ==
  LET u == dtMin((qfac * v) \div POS_SCALE, DT_QUANT_MAX)
  IN u - (u % 2)

quantMaxF(qfac, v) ==
  LET u == dtMin((qfac * v + POS_SCALE) \div POS_SCALE, DT_QUANT_MAX)
  IN IF u % 2 = 0 THEN u + 1 ELSE u

dtOverlapQuantBounds(amin, amax, bmin, bmax) ==
  ~(\/ amin[1] > bmax[1] \/ amax[1] < bmin[1]
    \/ amin[2] > bmax[2] \/ amax[2] < bmin[2]
    \/ amin[3] > bmax[3] \/ amax[3] < bmin[3])

\* the query box clamped to the tile bounds, relative to bmin, quantized
QuantizedBox(tile, qmin, qmax) ==
  LET tbmin == tile.header.bmin
      tbmax == tile.header.bmax
      qfac == tile.header.bvQuantFactor
      off(q, k) == dtClamp(q[k], tbmin[k], tbmax[k]) - tbmin[k]
  IN [bmin |-> [k \in 1..3 |-> quantMinF(qfac, off(qmin, k))],
      bmax |-> [k \in 1..3 |-> quantMaxF(qfac, off(qmax, k))]]

\* a tree walk that steps over every inner node's subtree
bvVisit_AlwaysEscapes(node, overlap) ==
  [take |-> node.i >= 0 /\ overlap,
   step |-> IF node.i >= 0 THEN 1 ELSE 0 - node.i]

\* one node of the walk: whether its polygon is reported and how far
\* nodeIdx moves
bvVisit(node, overlap) ==
  [take |-> node.i >= 0 /\ overlap,
   step |-> IF overlap \/ node.i >= 0 THEN 1 ELSE 0 - node.i]

\* "while nodeIdx < nodeEnd do": polys is the output so far
RECURSIVE bvWalk(_, _, _, _, _, _)
bvWalk(tile, base, box, nodeIdx, polys, maxPolys) ==
  IF nodeIdx >= tile.header.bvNodeCount + 1 THEN polys
  ELSE LET node == tile.bvTree[nodeIdx]
           v == bvVisit(node, dtOverlapQuantBounds(box.bmin, box.bmax,
                                                   node.bmin, node.bmax))
       IN bvWalk(tile, base, box, nodeIdx + v.step,
                 IF v.take /\ Len(polys) < maxPolys
                 THEN Append(polys, RefAdd(base, node.i)) ELSE polys,
                 maxPolys)

\* bounds of polygon k (1-based) of a tile, fixed point: [bmin, bmax]
RECURSIVE PolyBoundsFrom(_, _, _, _)
PolyBoundsFrom(tile, p, vi, b) ==
  IF vi > p.vertCount THEN b
  ELSE LET vv == [k \in 1..3 |-> POS_SCALE * tile.verts[p.verts[vi] + 1][k]]
       IN PolyBoundsFrom(tile, p, vi + 1,
            [bmin |-> [k \in 1..3 |-> dtMin(b.bmin[k], vv[k])],
             bmax |-> [k \in 1..3 |-> dtMax(b.bmax[k], vv[k])]])

PolyBounds(tile, p) ==
  LET v0 == [k \in 1..3 |-> POS_SCALE * tile.verts[p.verts[1] + 1][k]]
  IN PolyBoundsFrom(tile, p, 2, [bmin |-> v0, bmax |-> v0])

dtOverlapBounds(amin, amax, bmin, bmax) ==
  ~(\/ amin[1] > bmax[1] \/ amax[1] < bmin[1]
    \/ amin[2] > bmax[2] \/ amax[2] < bmin[2]
    \/ amin[3] > bmax[3] \/ amax[3] < bmin[3])

\* the branch of a tile without a tree: "for k = 0, polyCount - 1"
RECURSIVE scanPolys(_, _, _, _, _, _, _)
scanPolys(tile, base, qmin, qmax, k, polys, maxPolys) ==
  IF k > tile.header.polyCount - 1 THEN polys
  ELSE LET p == tile.polys[k + 1]
           b == PolyBounds(tile, p)
           hit == /\ p.areaAndtype \div 64 # DT_POLYTYPE_OFFMESH_CONNECTION
                  /\ dtOverlapBounds(qmin, qmax, b.bmin, b.bmax)
       IN scanPolys(tile, base, qmin, qmax, k + 1,
                    IF hit /\ Len(polys) < maxPolys
                    THEN Append(polys, RefAdd(base, k)) ELSE polys,
                    maxPolys)

\* queryPolygonsInTile(tile, qmin, qmax, polys, maxPolys): the refs written
\* to polys[1..n]
queryPolygonsInTile(tile, qmin, qmax, maxPolys) ==
  IF "bvTree" \in DOMAIN tile
  THEN bvWalk(tile, getPolyRefBase(tile), QuantizedBox(tile, qmin, qmax), 1,
              <<>>, maxPolys)
  ELSE scanPolys(tile, getPolyRefBase(tile), qmin, qmax, 0, <<>>, maxPolys)

\* The tree of a tile as the tile builder lays it out: a node comes before
\* its subtree, the box of an inner node encloses the boxes below it and
\* its i is the negated number of nodes from it to the end of its subtree.
\* items are leaves [bmin, bmax, i].
BoxOver(items) ==
  [bmin |-> [k \in 1..3 |->
               CHOOSE m \in {it.bmin[k] : it \in {items[j] : j \in 1..Len(items)}} :
                 \A j \in 1..Len(items) : m <= items[j].bmin[k]],
   bmax |-> [k \in 1..3 |->
               CHOOSE m \in {it.bmax[k] : it \in {items[j] : j \in 1..Len(items)}} :
                 \A j \in 1..Len(items) : m >= items[j].bmax[k]]]

RECURSIVE BvSubtree(_)
BvSubtree(items) ==
  IF Len(items) = 1 THEN items
  ELSE LET half == Len(items) \div 2
           below == BvSubtree(SubSeq(items, 1, half))
                      \o BvSubtree(SubSeq(items, half + 1, Len(items)))
       IN << [bmin |-> BoxOver(items).bmin, bmax |-> BoxOver(items).bmax,
              i |-> 0 - (Len(below) + 1)] >> \o below

Leaf(x0, y0, z0, x1, y1, z1, ip) ==
  [bmin |-> <<x0, y0, z0>>, bmax |-> <<x1, y1, z1>>, i |-> ip]

\* a tile of 6 x 2 x 6 world units in slot ti with the leaves given
MkBvTile(ti, qfac, leaves) ==
  [salt |-> 1, tileIndex |-> ti - 1,
   header |-> [bmin |-> <<0, 0, 0>>,
               bmax |-> <<6 * POS_SCALE, 2 * POS_SCALE, 6 * POS_SCALE>>,
               bvQuantFactor |-> qfac, bvNodeCount |-> 2 * Len(leaves) - 1,
               polyCount |-> Len(leaves)],
   bvTree |-> BvSubtree(leaves)]

BvTiles ==
  { MkBvTile(1, 1, << Leaf(0, 0, 0, 2, 1, 2, 0), Leaf(2, 0, 0, 4, 1, 2, 1),
                      Leaf(4, 0, 0, 6, 1, 2, 2), Leaf(4, 0, 4, 6, 1, 6, 3) >>),
    MkBvTile(2, 1, << Leaf(0, 0, 0, 3, 1, 3, 2), Leaf(0, 0, 3, 2, 1, 6, 0),
                      Leaf(3, 0, 0, 6, 1, 1, 4), Leaf(2, 0, 3, 6, 1, 6, 1),
                      Leaf(3, 0, 1, 6, 1, 3, 3) >>),
    MkBvTile(3, 2, << Leaf(0, 0, 0, 4, 2, 4, 0), Leaf(4, 0, 0, 8, 2, 4, 1),
                      Leaf(8, 0, 8, 12, 2, 12, 2) >>) }

\* corners of query boxes, fixed point
BoxCoords == {0 - 100, 50, 250, 450, 700}
BoxHeights == {0, 300}
BoxCapacities == {2, 512}

QueryPolygonsInTile(tile, qmin, qmax, maxPolys) ==
  /\ pc = "idle"
  /\ pc' = "queried"
  /\ args' = [tile |-> tile, qmin |-> qmin, qmax |-> qmax, maxPolys |-> maxPolys]
  /\ \E polys \in {queryPolygonsInTile(tile, qmin, qmax, maxPolys)} :
       result' = [polys |-> polys, count |-> Len(polys)]
  /\ UNCHANGED <<navVars, maxNodes, nodes, nodeCount, heap, heapSize, bestNode,
                 li, lastBestNode, lastBestNodeCost, outOfNodes, allocFailed,
                 steps, sp>>

NextBvh ==
  \E tile \in BvTiles, x0 \in BoxCoords, x1 \in BoxCoords, z0 \in BoxCoords,
     z1 \in BoxCoords, y0 \in BoxHeights, maxPolys \in BoxCapacities :
    /\ x0 <= x1
    /\ z0 <= z1
    /\ QueryPolygonsInTile(tile, <<x0, y0, z0>>, <<x1, y0 + POS_SCALE, z1>>, maxPolys)

SpecBvh == InitNav /\ [][NextBvh]_vars

\* two boxes share a point on every axis
BoxesMeet(amin, amax, bmin, bmax) ==
  \A k \in 1..3 : amin[k] <= bmax[k] /\ bmin[k] <= amax[k]

\* polygons of the queried tile whose leaf meets the quantized query box
LeavesMet ==
  LET box == QuantizedBox(args.tile, args.qmin, args.qmax)
  IN {RefAdd(getPolyRefBase(args.tile), args.tile.bvTree[n].i) :
        n \in {m \in 1..Len(args.tile.bvTree) :
                 /\ args.tile.bvTree[m].i >= 0
                 /\ BoxesMeet(box.bmin, box.bmax, args.tile.bvTree[m].bmin,
                              args.tile.bvTree[m].bmax)}}

BvhQueried ==
  /\ pc = "queried"
  /\ "bvTree" \in DOMAIN args.tile
  /\ args.maxPolys >= args.tile.header.polyCount

\* C26: for a tile with a tree and an output capacity of at least the
\* tile's polygon count, queryPolygonsInTile returns a polygon exactly when
\* the box of its leaf overlaps the quantized query box, each once.
C26_BvhQueryExact ==
  BvhQueried =>
    /\ {result.polys[k] : k \in 1..result.count} = LeavesMet
    /\ result.count = Cardinality(LeavesMet)

\* the walk entered the root, jumped over the inner node that follows it and
\* still reported a polygon while leaving another out
C26_Witness ==
  /\ BvhQueried
  /\ LET box == QuantizedBox(args.tile, args.qmin, args.qmax)
         Met(n) == BoxesMeet(box.bmin, box.bmax, args.tile.bvTree[n].bmin,
                             args.tile.bvTree[n].bmax)
     IN /\ Met(1)
        /\ args.tile.bvTree[2].i < 0
        /\ ~Met(2)
  /\ result.count >= 1
  /\ result.count < args.tile.header.polyCount

\* ------------------------------------------------------------------------
\* queryPolygons and findNearestPoly on a built mesh
\* ------------------------------------------------------------------------
\* params.tileWidth = params.tileHeight, fixed point; params.orig is 0
tileWidth == 2 * POS_SCALE

\* calcTileLoc(pos): math.floor of the quotient
calcTileLoc(pos) == <<pos[1] \div tileWidth, pos[3] \div tileWidth>>

\* capacity of the buffer q:_queryPolygonsInTile hands to the NavMesh
QPI_CAPACITY == 512

\* q:_queryPolygonsInTile(tile, qmin, qmax, filter, outPolys)
queryPolygonsInTileFiltered(nm, ti, qmin, qmax, filter) ==
  SelectSeq(queryPolygonsInTile(nm.tiles[ti], qmin, qmax, QPI_CAPACITY),
            LAMBDA ref : passFilter(filter,
                           nm.tiles[TileOfRef(ref)].polys[PolyOfRef(ref)]))

\* the tiles of one cell, in getTilesAt order
RECURSIVE queryTiles(_, _, _, _, _, _)
queryTiles(nm, tiles, i, qmin, qmax, filter) ==
  IF i > Len(tiles) THEN <<>>
  ELSE queryPolygonsInTileFiltered(nm, tiles[i], qmin, qmax, filter)
         \o queryTiles(nm, tiles, i + 1, qmin, qmax, filter)

\* "for ty = miny, maxy do for tx = minx, maxx do": lo and hi are the cells
\* of bmin and bmax
RECURSIVE queryCells(_, _, _, _, _, _, _, _)
queryCells(nm, tx, ty, lo, hi, qmin, qmax, filter) ==
  IF ty > hi[2] THEN <<>>
  ELSE IF tx > hi[1] THEN queryCells(nm, lo[1], ty + 1, lo, hi, qmin, qmax, filter)
  ELSE queryTiles(nm, getTilesAt(nm, tx, ty), 1, qmin, qmax, filter)
         \o queryCells(nm, tx + 1, ty, lo, hi, qmin, qmax, filter)

\* q:queryPolygons(center, halfExtents, filter): polys[1..total]
queryPolygons(nm, center, halfExtents, filter) ==
  LET bmin == [k \in 1..3 |-> center[k] - halfExtents[k]]
      bmax == [k \in 1..3 |-> center[k] + halfExtents[k]]
  IN queryCells(nm, calcTileLoc(bmin)[1], calcTileLoc(bmin)[2],
                calcTileLoc(bmin), calcTileLoc(bmax), bmin, bmax, filter)

\* NavMesh closestPointOnPoly(ref, pos) on a valid ref: [pt, over, buf].
\* The tiles carry no detail meshes (detailMeshCount = 0), so getPolyHeight
\* answers false ("if not pd") and closestPointOnDetailEdges copies pos to
\* its return buffer _detailClos, which is what the caller is handed.
closestPointOnPoly(nm, ref, pos) ==
  LET poly == nm.tiles[TileOfRef(ref)].polys[PolyOfRef(ref)]
  IN IF poly.areaAndtype \div 64 = DT_POLYTYPE_OFFMESH_CONNECTION
     THEN [pt |-> [k \in 1..3 |-> POS_SCALE
                     * Vert(nm.tiles[TileOfRef(ref)], poly.verts[1])[k]],
           over |-> FALSE, buf |-> "_closestBuf"]
     ELSE [pt |-> pos, over |-> FALSE, buf |-> "_detailClos"]

\* a findNearestPoly that hands back the origin when it finds nothing
findNearestPoly_LeavesPoint(nm, center, halfExtents, filter) ==
  [ref |-> NullRef, pt |-> <<0, 0, 0>>]

\* the loop of findNearestPoly over polys[k..]: best is [ref, pt, d, any]
RECURSIVE nearestOf(_, _, _, _, _)

\* "d = d > 0 and d*d or 0"
climbDist(dy) == IF dy > 0 THEN dy * dy ELSE 0

\* d is the distance found for polys[k] and its closest point cp
nearestWith(nm, polys, k, center, best, cp, d) ==
  nearestOf(nm, polys, k + 1, center,
            IF ~best.any \/ d < best.d
            THEN [ref |-> polys[k], pt |-> cp.pt, d |-> d, any |-> TRUE]
            ELSE best)

nearestAt(nm, polys, k, center, best, cp) ==
  nearestWith(nm, polys, k, center, best, cp,
    IF cp.over
    THEN climbDist(dtAbs(center[2] - cp.pt[2])
                   - POS_SCALE * nm.tiles[TileOfRef(polys[k])].header.walkableClimb)
    ELSE dtVdistSqr(center, cp.pt))

nearestOf(nm, polys, k, center, best) ==
  IF k > Len(polys) THEN best
  ELSE nearestAt(nm, polys, k, center, best,
                 closestPointOnPoly(nm, polys[k], center))

nearestReturn(best) == [ref |-> best.ref, pt |-> best.pt]

\* q:findNearestPoly(center, halfExtents, filter) -> nearest, nearestPt
findNearestPoly(nm, center, halfExtents, filter) ==
  nearestReturn(nearestOf(nm, queryPolygons(nm, center, halfExtents, filter), 1,
                          center, [ref |-> NullRef, pt |-> center, d |-> 0,
                                   any |-> FALSE]))

\* search boxes: centres and half extents, fixed point
Centers ==
  { <<100, 0, 50>>, <<300, 0, 100>>, <<100, 0, 300>>, <<700, 0, 700>>,
    <<0 - 300, 0, 0 - 300>>, <<450, 0, 250>>, <<100, 500, 100>>, <<300, 100, 100>> }
HalfExtents == { <<50, 100, 50>>, <<200, 400, 200>>, <<10, 10, 10>> }

FindNearestPolyCall(center, halfExtents, filter) ==
  /\ pc = "idle"
  /\ pc' = "nearest"
  /\ args' = [center |-> center, halfExtents |-> halfExtents, filter |-> filter]
  /\ result' = findNearestPoly(nav, center, halfExtents, filter)
  /\ UNCHANGED <<navVars, maxNodes, nodes, nodeCount, heap, heapSize, bestNode,
                 li, lastBestNode, lastBestNodeCost, outOfNodes, allocFailed,
                 steps, sp>>

NextNearest ==
  \E center \in Centers, halfExtents \in HalfExtents, filter \in Filters :
    FindNearestPolyCall(center, halfExtents, filter)

SpecNearest == InitPath /\ [][NextNearest]_vars

\* installed polygons that pass the filter and whose bounds meet the box
PolysInBox ==
  LET bmin == [k \in 1..3 |-> args.center[k] - args.halfExtents[k]]
      bmax == [k \in 1..3 |-> args.center[k] + args.halfExtents[k]]
  IN {r \in {PolyRefOf(nav, i, k) : i \in Installed(nav), k \in 1..2} :
        /\ isValidPolyRef(nav, r)
        /\ passFilter(args.filter, nav.tiles[TileOfRef(r)].polys[PolyOfRef(r)])
        /\ BoxesMeet(bmin, bmax,
             PolyBounds(nav.tiles[TileOfRef(r)],
                        nav.tiles[TileOfRef(r)].polys[PolyOfRef(r)]).bmin,
             PolyBounds(nav.tiles[TileOfRef(r)],
                        nav.tiles[TileOfRef(r)].polys[PolyOfRef(r)]).bmax)}

NothingInBox == pc = "nearest" /\ PolysInBox = {}

MAX_POLYS == 4096
\* 17066.666, fixed point
WORLD_MAX == 1706666
\* -200000.0, fixed point
TERRAIN_INVALID_HEIGHT == 0 - 20000000
\* the pf._extents {2.0, 4.0, 2.0}
PfExtents == <<2 * POS_SCALE, 4 * POS_SCALE, 2 * POS_SCALE>>
\* NavMeshQuery.newFilter()
PfFilter == [includeFlags |-> 65535, excludeFlags |-> 0, areaCost |-> <<1, 1>>]
\* the -1.0 of a failed query
NoDistance == 0 - POS_SCALE

\* node pool of the PathFinder's query (65535 in the source) and the most
\* points a straight path is given room for
DistanceNodes == 8
DistancePoints == 6

DistanceBuffer ==
  [count |-> 0,
   pos |-> [i \in 1..DistancePoints |-> <<0, 0, 0>>],
   flags |-> [i \in 1..DistancePoints |-> 0],
   refs |-> [i \in 1..DistancePoints |-> NullRef],
   apex |-> <<0, 0, 0>>,
   closestEnd |-> <<0, 0, 0>>]

\* "for k = 1, nstraight - 1 do total = total + math.sqrt(...)"
RECURSIVE PathLength(_, _, _)
PathLength(pos, k, n) ==
  IF k >= n THEN 0 ELSE dtVdist(pos[k], pos[k + 1]) + PathLength(pos, k + 1, n)

\* what a query that stopped early returns: nil, 0, -1.0
QueryFailed(s, b, startRef, endRef, path) ==
  [total |-> NoDistance, nstraight |-> 0, startRef |-> startRef,
   endRef |-> endRef, path |-> path, s |-> s, sp |-> b]

\* r is what findStraightPath returned
straightResult(found, startRef, endRef, r) ==
  IF r.count < 2
  THEN QueryFailed(found.s, r.sp, startRef, endRef, found.result.path)
  ELSE [total |-> PathLength(r.sp.pos, 1, r.count), nstraight |-> r.count,
        startRef |-> startRef, endRef |-> endRef,
        path |-> found.result.path, s |-> found.s, sp |-> r.sp]

\* a _run_query that gives up when the corridor stops short of endRef
straightPart_GivesUp(nm, b, startPos, endPos, startRef, endRef, found) ==
  IF found.result.path[found.result.pathCount] # endRef
  THEN QueryFailed(found.s, b, startRef, endRef, found.result.path)
  ELSE straightResult(found, startRef, endRef,
         findStraightPath(nm, b, startPos, endPos, found.result.path,
                          found.result.pathCount, MAX_POLYS, 0))

\* last is path[npolys]: "Clamp end to last reachable poly if incomplete"
straightFrom(nm, b, startPos, endPos, startRef, endRef, found, last) ==
  straightResult(found, startRef, endRef,
    findStraightPath(nm, b, startPos,
                     IF last # endRef /\ isValidPolyRef(nm, last)
                     THEN closestPointOnPoly(nm, last, endPos).pt
                     ELSE endPos,
                     found.result.path, found.result.pathCount, MAX_POLYS, 0))

\* _run_query from "Clamp end to last reachable poly if incomplete" on;
\* found is what findPath returned, with npolys > 0
straightPart(nm, b, startPos, endPos, startRef, endRef, found) ==
  straightFrom(nm, b, startPos, endPos, startRef, endRef, found,
               found.result.path[found.result.pathCount])

\* found is what findPath returned
runFound(nm, b, startPos, endPos, startRef, endRef, found) ==
  IF found.result.pathCount = 0
  THEN QueryFailed(found.s, b, startRef, endRef, <<>>)
  ELSE straightPart(nm, b, startPos, endPos, startRef, endRef, found)

\* startRef and endRef are what findNearestPoly returned
runLocated(nm, cap, s0, b, startPos, endPos, startRef, endRef) ==
  IF startRef = NullRef \/ endRef = NullRef
  THEN QueryFailed(s0, b, startRef, endRef, <<>>)
  ELSE runFound(nm, b, startPos, endPos, startRef, endRef,
                findPath(nm, [startRef |-> startRef, endRef |-> endRef,
                              startPos |-> startPos, endPos |-> endPos,
                              filter |-> PfFilter, maxPath |-> MAX_POLYS],
                         cap, s0))

\* startPos and endPos are the Recast points {y, z, x}
runFrom(nm, cap, s0, b, startPos, endPos) ==
  runLocated(nm, cap, s0, b, startPos, endPos,
             findNearestPoly(nm, startPos, PfExtents, PfFilter).ref,
             findNearestPoly(nm, endPos, PfExtents, PfFilter).ref)

\* pf:_run_query(x1, y1, x2, y2); in carries the four coordinates, the
\* heights z1, z2 the terrain files give and pf._initialized; s0 and b are
\* the query's search state and straight-path buffers before the call
runQuery(nm, cap, s0, b, in) ==
  IF \/ dtAbs(in.x1) > WORLD_MAX \/ dtAbs(in.y1) > WORLD_MAX
     \/ dtAbs(in.x2) > WORLD_MAX \/ dtAbs(in.y2) > WORLD_MAX
  THEN QueryFailed(s0, b, NullRef, NullRef, <<>>)
  ELSE IF ~in.initialized THEN QueryFailed(s0, b, NullRef, NullRef, <<>>)
  ELSE IF in.z1 = TERRAIN_INVALID_HEIGHT \/ in.z2 = TERRAIN_INVALID_HEIGHT
  THEN QueryFailed(s0, b, NullRef, NullRef, <<>>)
  ELSE runFrom(nm, cap, s0, b, <<in.y1, in.z1, in.x1>>, <<in.y2, in.z2, in.x2>>)

\* WoW (x, y) of the calls: inside each polygon of the meshes, between the
\* tiles, off the mesh and beyond WORLD_MAX
WowPoints ==
  { <<100, 300>>, <<300, 100>>, <<700, 700>>, <<50, 100>>, <<150, 100>>,
    <<190, 210>>, <<1500, 1500>>, <<1800000, 0>> }
TerrainHeights == {0, TERRAIN_INVALID_HEIGHT}

InitDistance ==
  /\ nav \in Meshes
  /\ addRes = "ok"
  /\ addMsg = ""
  /\ addBlob = BlobFar
  /\ addLen = BlobSize(BlobFar)
  /\ navBefore = nav
  /\ maxNodes = DistanceNodes
  /\ nodes = [i \in 1..maxNodes |-> BlankNode]
  /\ nodeCount = 0
  /\ heap = [i \in 1..maxNodes |-> 0]
  /\ heapSize = 0
  /\ pc = "idle"
  /\ args = BlankArgs
  /\ bestNode = 0
  /\ li = DT_NULL_LINK
  /\ lastBestNode = 0
  /\ lastBestNodeCost = 0
  /\ outOfNodes = FALSE
  /\ result = NoResult
  /\ allocFailed = FALSE
  /\ steps = 0
  /\ sp = DistanceBuffer

\* pf:computeDistance(x1, y1, x2, y2) -> total
ComputeDistance(in) ==
  /\ pc = "idle"
  /\ pc' = "distance"
  /\ args' = in
  /\ \E r \in {runQuery(nav, maxNodes,
                        [nodes |-> nodes, count |-> nodeCount, heap |-> heap,
                         size |-> heapSize, last |-> lastBestNode,
                         lastCost |-> lastBestNodeCost, oon |-> outOfNodes,
                         failed |-> FALSE], sp, in)} :
       /\ nodes' = r.s.nodes
       /\ nodeCount' = r.s.count
       /\ heap' = r.s.heap
       /\ heapSize' = r.s.size
       /\ lastBestNode' = r.s.last
       /\ lastBestNodeCost' = r.s.lastCost
       /\ outOfNodes' = r.s.oon
       /\ allocFailed' = r.s.failed
       /\ sp' = r.sp
       /\ result' = [total |-> r.total, nstraight |-> r.nstraight,
                     startRef |-> r.startRef, endRef |-> r.endRef,
                     path |-> r.path]
  /\ UNCHANGED <<navVars, maxNodes, bestNode, li, steps>>

NextDistance ==
  \E p1 \in WowPoints, p2 \in WowPoints, z1 \in TerrainHeights,
     z2 \in TerrainHeights, initialized \in BOOLEAN :
    ComputeDistance([x1 |-> p1[1], y1 |-> p1[2], z1 |-> z1,
                     x2 |-> p2[1], y2 |-> p2[2], initialized |-> initialized,
                     z2 |-> z2])

SpecDistance == InitDistance /\ [][NextDistance]_vars

\* both points were located and the corridor is empty or stops short of the
\* end polygon
CorridorShort ==
  /\ pc = "distance"
  /\ result.startRef # NullRef
  /\ result.endRef # NullRef
  /\ result.path = <<>> \/ result.path[Len(result.path)] # result.endRef

RECURSIVE Gcd(_, _)
Gcd(a, b) == IF b = 0 THEN a ELSE Gcd(b, a % b)

\* the quotient n / d of two doubles that hold integers, d # 0, as a
\* fraction in lowest terms with a positive denominator
Quot(n, d) ==
  LET g == Gcd(dtAbs(n), dtAbs(d))
  IN IF d < 0 THEN <<(0 - n) \div g, (0 - d) \div g>> ELSE <<n \div g, d \div g>>

QuotLess(a, b) == a[1] * b[2] < b[1] * a[2]

\* the polygon's vertices, fixed point
PolyVerts(tile, poly) ==
  [k \in 1..poly.vertCount |->
     [c \in 1..3 |-> POS_SCALE * Vert(tile, poly.verts[k])[c]]]

\* one edge (j -> i) of dtIntersectSegmentPoly2D; acc is [ok, tmin, tmax,
\* segMin, segMax].  d is an integer here, so |d| < EPS is d = 0.
RECURSIVE intersectEdges(_, _, _, _, _, _)
intersectEdges(p0, p1, verts, i, j, acc) ==
  IF i > Len(verts) THEN acc
  ELSE LET edgex == verts[i][1] - verts[j][1]
           edgez == verts[i][3] - verts[j][3]
           diffx == p0[1] - verts[j][1]
           diffz == p0[3] - verts[j][3]
           n == edgez * diffx - edgex * diffz
           d == (p1[3] - p0[3]) * edgex - (p1[1] - p0[1]) * edgez
           miss == [ok |-> FALSE, tmin |-> <<0, 1>>, tmax |-> <<0, 1>>,
                    segMin |-> 0 - 1, segMax |-> 0 - 1]
       IN IF d = 0
          THEN IF n < 0 THEN miss
               ELSE intersectEdges(p0, p1, verts, i + 1, i, acc)
          ELSE IF d < 0
          THEN IF QuotLess(acc.tmin, Quot(n, d))
               THEN IF QuotLess(acc.tmax, Quot(n, d)) THEN miss
                    ELSE intersectEdges(p0, p1, verts, i + 1, i,
                           [acc EXCEPT !.tmin = Quot(n, d), !.segMin = j - 1])
               ELSE intersectEdges(p0, p1, verts, i + 1, i, acc)
          ELSE IF QuotLess(Quot(n, d), acc.tmax)
               THEN IF QuotLess(Quot(n, d), acc.tmin) THEN miss
                    ELSE intersectEdges(p0, p1, verts, i + 1, i,
                           [acc EXCEPT !.tmax = Quot(n, d), !.segMax = j - 1])
               ELSE intersectEdges(p0, p1, verts, i + 1, i, acc)

dtIntersectSegmentPoly2D(p0, p1, verts) ==
  intersectEdges(p0, p1, verts, 1, Len(verts),
                 [ok |-> TRUE, tmin |-> <<0, 1>>, tmax |-> <<1, 1>>,
                  segMin |-> 0 - 1, segMax |-> 0 - 1])

\* "z >= lmin and z <= lmax" for the ray coordinate at tmax on the axis c
\* and the part bmin/255 .. bmax/255 of the stretch from lv to rv
InLinkSpan(a, tmax, c, link, lv, rv) ==
  LET lo255 == 255 * lv[c] + (rv[c] - lv[c]) * link.bmin
      hi255 == 255 * lv[c] + (rv[c] - lv[c]) * link.bmax
      lmin255 == dtMin(lo255, hi255)
      lmax255 == dtMax(lo255, hi255)
      \* the coordinate times tmax[2]
      zd == a.startPos[c] * tmax[2] + (a.endPos[c] - a.startPos[c]) * tmax[1]
  IN /\ 255 * zd >= lmin255 * tmax[2]
     /\ 255 * zd <= lmax255 * tmax[2]

\* the axis a link's side is measured on: z for sides 0 and 4, x for 2 and 6
SpanAxis(side) == IF side = 0 \/ side = 4 THEN 3 ELSE 1

\* the partial-edge check of dtNavMeshQuery::raycast, which reads
\* v1 = poly->verts[(link->edge+1) % poly->vertCount]
linkTakes_BothEnds(nm, a, tile, poly, link, tmax) ==
  LET next == nm.tiles[TileOfRef(link.ref)].polys[PolyOfRef(link.ref)]
      verts == PolyVerts(tile, poly)
  IN IF next.areaAndtype \div 64 = DT_POLYTYPE_OFFMESH_CONNECTION THEN FALSE
     ELSE IF ~passFilter(a.filter, next) THEN FALSE
     ELSE IF link.side = INTERNAL_SIDE THEN TRUE
     ELSE IF link.bmin = 0 /\ link.bmax = 255 THEN TRUE
     ELSE IF link.side \in {0, 2, 4, 6}
     THEN InLinkSpan(a, tmax, SpanAxis(link.side), link, verts[link.edge + 1],
                     verts[((link.edge + 1) % poly.vertCount) + 1])
     ELSE FALSE

\* the body of "repeat ... until true" for a link on the edge the ray leaves
\* by: does it set nextRef?  v1i = poly.verts[(link.edge % nv) + 1] is the
\* vertex v0i again, so lv and rv are one vertex.
linkTakes(nm, a, tile, poly, link, tmax) ==
  LET next == nm.tiles[TileOfRef(link.ref)].polys[PolyOfRef(link.ref)]
      verts == PolyVerts(tile, poly)
  IN IF next.areaAndtype \div 64 = DT_POLYTYPE_OFFMESH_CONNECTION THEN FALSE
     ELSE IF ~passFilter(a.filter, next) THEN FALSE
     ELSE IF link.side = INTERNAL_SIDE THEN TRUE
     ELSE IF link.bmin = 0 /\ link.bmax = 255 THEN TRUE
     ELSE IF link.side \in {0, 2, 4, 6}
     THEN InLinkSpan(a, tmax, SpanAxis(link.side), link, verts[link.edge + 1],
                     verts[(link.edge % poly.vertCount) + 1])
     ELSE FALSE

\* "while li ~= DT_NULL_LINK do": the links chain[k..] of the polygon; nx is
\* [ref, geom], the nextRef so far and the ref nextTile, nextPoly were last
\* fetched for.  A later link that takes the ray replaces an earlier one.
RECURSIVE followLinks(_, _, _, _, _, _, _, _)
followLinks(nm, a, tile, poly, chain, k, isect, nx) ==
  IF k > Len(chain) THEN nx
  ELSE LET link == tile.links[chain[k] + 1]
       IN followLinks(nm, a, tile, poly, chain, k + 1, isect,
            IF link.edge # isect.segMax THEN nx
            ELSE IF linkTakes(nm, a, tile, poly, link, isect.tmax)
            THEN [ref |-> link.ref, geom |-> link.ref]
            ELSE [ref |-> nx.ref, geom |-> link.ref])

\* "hit wall": the normal of edge segMax, fixed point
wallNormal(verts, segMax) ==
  LET va == verts[segMax + 1]
      vb == verts[(IF segMax + 1 < Len(verts) THEN segMax + 1 ELSE 0) + 1]
      dx == vb[1] - va[1]
      dz == vb[3] - va[3]
      len == ISqrt(dx * dx + dz * dz)
  IN IF len > 0 THEN <<(dz * POS_SCALE) \div len, 0, (0 - dx * POS_SCALE) \div len>>
     ELSE <<0, 0, 0>>

\* most polygons one ray is followed through
RayFuel == 6

\* "while curRef ~= 0 do": curRef is the polygon the ray is in, geom the ref
\* tile and poly were fetched for, hitT a fraction or "huge"; trace keeps
\* [ref, geom, tmax, segMax, next] of every polygon stored in hitPath, next
\* being the nextRef the link loop ended with
RECURSIVE rayLoop(_, _, _, _, _, _, _)
rayLoop(nm, a, curRef, geom, hitT, trace, fuel) ==
  LET tile == nm.tiles[TileOfRef(geom)]
      poly == tile.polys[PolyOfRef(geom)]
      verts == PolyVerts(tile, poly)
      isect == dtIntersectSegmentPoly2D(a.startPos, a.endPos, verts)
      t1 == IF QuotLess(hitT, isect.tmax) THEN isect.tmax ELSE hitT
      nx == followLinks(nm, a, tile, poly,
                        LinkChain(tile, poly.firstLink, Len(tile.links) + 1), 1,
                        isect, [ref |-> NullRef, geom |-> geom])
      trace1 == Append(trace, [ref |-> curRef, geom |-> geom,
                               tmax |-> isect.tmax, segMax |-> isect.segMax,
                               next |-> IF isect.segMax = 0 - 1 THEN NullRef
                                        ELSE nx.ref])
  IN IF fuel = 0
     THEN [t |-> hitT, hitNormal |-> <<0, 0, 0>>, trace |-> trace,
           status |-> {"fuel"}]
     ELSE IF ~isect.ok
     THEN [t |-> hitT, hitNormal |-> <<0, 0, 0>>, trace |-> trace,
           status |-> {DT_SUCCESS}]
     ELSE IF isect.segMax = 0 - 1
     THEN [t |-> "huge", hitNormal |-> <<0, 0, 0>>, trace |-> trace1,
           status |-> {DT_SUCCESS}]
     ELSE IF nx.ref = NullRef
     THEN [t |-> t1, hitNormal |-> wallNormal(verts, isect.segMax),
           trace |-> trace1, status |-> {DT_SUCCESS}]
     ELSE rayLoop(nm, a, nx.ref, nx.geom, t1, trace1, fuel - 1)

\* q:raycast(startRef, startPos, endPos, filter) -> t, hitNormal, path,
\* pathCount, status
raycast(nm, a) ==
  IF ~isValidPolyRef(nm, a.startRef)
  THEN [t |-> <<0, 1>>, hitNormal |-> <<0, 0, 0>>, path |-> <<>>,
        pathCount |-> 0, status |-> {DT_FAILURE, DT_INVALID_PARAM},
        trace |-> <<>>]
  ELSE LET r == rayLoop(nm, a, a.startRef, a.startRef, <<0, 1>>, <<>>, RayFuel)
       IN [t |-> r.t, hitNormal |-> r.hitNormal,
           path |-> [k \in 1..Len(r.trace) |-> r.trace[k].ref],
           pathCount |-> Len(r.trace), status |-> r.status, trace |-> r.trace]

\* ends of the rays, fixed point: in the polygons of the cells (0, 0),
\* (1, 0) and (0, 1) and east of the mesh
RayPoints ==
  { <<300, 0, 50>>, <<100, 0, 50>>, <<100, 0, 150>>, <<350, 0, 150>>,
    <<100, 0, 300>>, <<100, 0, 0>>, <<500, 0, 50>> }

Raycast(startRef, startPos, endPos, filter) ==
  /\ pc = "idle"
  /\ pc' = "ray"
  /\ args' = [startRef |-> startRef, startPos |-> startPos, endPos |-> endPos,
              filter |-> filter]
  /\ result' = raycast(nav, [startRef |-> startRef, startPos |-> startPos,
                             endPos |-> endPos, filter |-> filter])
  /\ UNCHANGED <<navVars, maxNodes, nodes, nodeCount, heap, heapSize, bestNode,
                 li, lastBestNode, lastBestNodeCost, outOfNodes, allocFailed,
                 steps, sp>>

NextRay ==
  \E startRef \in RefsOf(nav), startPos \in RayPoints, endPos \in RayPoints,
     filter \in Filters :
    Raycast(startRef, startPos, endPos, filter)

SpecRay == InitPath /\ [][NextRay]_vars

\* the links on the edge that the k-th polygon of the ray was left by which
\* lead to a ground polygon passing the filter
ExitLinks(k) ==
  LET v == result.trace[k]
      tile == nav.tiles[TileOfRef(v.geom)]
      poly == tile.polys[PolyOfRef(v.geom)]
      chain == LinkChain(tile, poly.firstLink, Len(tile.links) + 1)
  IN {l \in {tile.links[chain[i] + 1] : i \in 1..Len(chain)} :
        /\ l.edge = v.segMax
        /\ passFilter(args.filter,
                      nav.tiles[TileOfRef(l.ref)].polys[PolyOfRef(l.ref)])}

IsPartial(l) == l.side # INTERNAL_SIDE /\ ~(l.bmin = 0 /\ l.bmax = 255)

\* the ray's coordinate where it leaves the k-th polygon lies within the
\* part of the edge, from its first vertex to its second, that l covers
WithinLink(k, l) ==
  LET v == result.trace[k]
      tile == nav.tiles[TileOfRef(v.geom)]
      poly == tile.polys[PolyOfRef(v.geom)]
      verts == PolyVerts(tile, poly)
  IN InLinkSpan(args, v.tmax, SpanAxis(l.side), l, verts[l.edge + 1],
                verts[((l.edge + 1) % poly.vertCount) + 1])

\* the ray went on from the k-th polygon into the polygon l leads to
WentThrough(k, l) == result.trace[k].next = l.ref

\* C22: raycast advances across a partial-edge external link exactly when
\* the ray's coordinate at the exit parameter, on the link's axis (z for
\* sides 0 and 4, x for sides 2 and 6), lies within the interval that
\* bmin/255 and bmax/255 interpolate between the edge's two endpoint
\* vertices.
C22_PartialLinkBySpan ==
  pc = "ray" =>
    \A k \in 1..Len(result.trace) :
      (result.trace[k].segMax # 0 - 1 /\ \A l \in ExitLinks(k) : IsPartial(l))
        => ((\E l \in ExitLinks(k) : WithinLink(k, l))
              <=> (\E l \in ExitLinks(k) : WentThrough(k, l)))

\* ------------------------------------------------------------------------
\* Two NavMeshQuery instances over one NavMesh
\* ------------------------------------------------------------------------
\* The instances q1, q2 = NavMeshQuery.new(nav).  In this specification sp
\* holds the storage of the Lua modules and of the instances:
\*   sp.mod   the module-level tables that the calls below keep values in,
\*            _detailClos and _closestBuf of the NavMesh module, _fspApex
\*            and _fspClosestEnd of the NavMeshQuery module (tables that
\*            are written before they are read within one call, _pLeft,
\*            _pRight, _fspLeft, _fspRight, are left out);
\*   sp.inst  per instance, _spPath, _spFlags, _spRefs and the count;
\* result[q] is what the caller of q last got back: a table is held by
\* reference, as the name of the buffer it is.
Queries == {1, 2}

\* most calls made on the two instances together
MaxShared == 2

ModuleBuffers == {"_detailClos", "_closestBuf", "_fspApex", "_fspClosestEnd"}

BlankInstance ==
  [count |-> 0,
   pos |-> [i \in 1..MaxStraight + 1 |-> <<0, 0, 0>>],
   flags |-> [i \in 1..MaxStraight + 1 |-> 0],
   refs |-> [i \in 1..MaxStraight + 1 |-> NullRef]]

InitShared ==
  /\ nav \in {BuildMesh(NewNavMesh, <<BlobRows, BlobEast, BlobNorth>>, 1),
              BuildMesh(NewNavMesh, <<BlobFar, BlobEast, BlobNorth>>, 1)}
  /\ addRes = "ok"
  /\ addMsg = ""
  /\ addBlob = BlobFar
  /\ addLen = BlobSize(BlobFar)
  /\ navBefore = nav
  /\ maxNodes = MaxNodesBound
  /\ nodes = [i \in 1..maxNodes |-> BlankNode]
  /\ nodeCount = 0
  /\ heap = [i \in 1..maxNodes |-> 0]
  /\ heapSize = 0
  /\ pc = "idle"
  /\ args = [q |-> 0, op |-> "none"]
  /\ bestNode = 0
  /\ li = DT_NULL_LINK
  /\ lastBestNode = 0
  /\ lastBestNodeCost = 0
  /\ outOfNodes = FALSE
  /\ result = [q \in Queries |-> [kind |-> "none"]]
  /\ allocFailed = FALSE
  /\ steps = 0
  /\ sp = [mod |-> [b \in ModuleBuffers |-> <<0, 0, 0>>],
           inst |-> [q \in Queries |-> BlankInstance]]

sharedFrame == <<navVars, maxNodes, nodes, nodeCount, heap, heapSize, bestNode,
                 li, lastBestNode, lastBestNodeCost, outOfNodes, allocFailed>>

\* q:closestPointOnPoly(ref, pos): nil, false for an invalid ref, else what
\* the NavMesh returns, which is its return buffer
ClosestPointOnPolyOn(q, ref, pos) ==
  /\ steps < MaxShared
  /\ steps' = steps + 1
  /\ pc' = "called"
  /\ args' = [q |-> q, op |-> "closestPointOnPoly", ref |-> ref, pos |-> pos]
  /\ IF ~isValidPolyRef(nav, ref)
     THEN /\ result' = [result EXCEPT ![q] = [kind |-> "nil"]]
          /\ sp' = sp
     ELSE \E cp \in {closestPointOnPoly(nav, ref, pos)} :
            /\ sp' = [sp EXCEPT !.mod[cp.buf] = cp.pt]
            /\ result' = [result EXCEPT ![q] = [kind |-> "table", of |-> cp.buf,
                                                over |-> cp.over]]
  /\ UNCHANGED sharedFrame

\* the return buffers after closestPointOnPoly ran on polys[k..]
RECURSIVE closestWrites(_, _, _, _, _)
closestWrites(nm, polys, k, center, mod) ==
  IF k > Len(polys) THEN mod
  ELSE LET cp == closestPointOnPoly(nm, polys[k], center)
       IN closestWrites(nm, polys, k + 1, center, [mod EXCEPT ![cp.buf] = cp.pt])

\* q:findNearestPoly(center, halfExtents, filter): the point returned is a
\* new table
FindNearestPolyOn(q, center, halfExtents) ==
  /\ steps < MaxShared
  /\ steps' = steps + 1
  /\ pc' = "called"
  /\ args' = [q |-> q, op |-> "findNearestPoly", center |-> center,
              halfExtents |-> halfExtents]
  /\ \E r \in {findNearestPoly(nav, center, halfExtents, PfFilter)} :
       result' = [result EXCEPT ![q] = [kind |-> "nearest", ref |-> r.ref,
                                        pt |-> r.pt]]
  /\ sp' = [sp EXCEPT !.mod = closestWrites(nav,
                                 queryPolygons(nav, center, halfExtents, PfFilter),
                                 1, center, sp.mod)]
  /\ UNCHANGED sharedFrame

\* q:findStraightPath(startPos, endPos, path, #path, maxStraight, 0): the
\* path returned is the instance's _spPath
FindStraightPathOn(q, startPos, endPos, path, maxStraight) ==
  /\ steps < MaxShared
  /\ steps' = steps + 1
  /\ pc' = "called"
  /\ args' = [q |-> q, op |-> "findStraightPath", startPos |-> startPos,
              endPos |-> endPos, path |-> path, maxStraight |-> maxStraight]
  /\ \E r \in {findStraightPath(nav,
                  [count |-> sp.inst[q].count, pos |-> sp.inst[q].pos,
                   flags |-> sp.inst[q].flags, refs |-> sp.inst[q].refs,
                   apex |-> sp.mod["_fspApex"],
                   closestEnd |-> sp.mod["_fspClosestEnd"]],
                  startPos, endPos, path, Len(path), maxStraight, 0)} :
       /\ sp' = [sp EXCEPT !.inst[q] = [count |-> r.sp.count, pos |-> r.sp.pos,
                                        flags |-> r.sp.flags, refs |-> r.sp.refs],
                           !.mod["_fspApex"] = r.sp.apex,
                           !.mod["_fspClosestEnd"] = r.sp.closestEnd]
       /\ result' = [result EXCEPT ![q] = [kind |-> "path", count |-> r.count,
                                           status |-> r.status]]
  /\ UNCHANGED sharedFrame

NextShared ==
  \E q \in Queries :
    \/ \E ref \in RefsOf(nav), pos \in StartPoints : ClosestPointOnPolyOn(q, ref, pos)
    \/ \E center \in StartPoints, halfExtents \in {PfExtents, <<10, 10, 10>>} :
         FindNearestPolyOn(q, center, halfExtents)
    \/ \E startPos \in StartPoints, endPos \in EndPoints,
          path \in {c \in CorridorsUpTo(nav, 1) : Len(c) = 1},
          maxStraight \in {2, MaxStraight} :
         FindStraightPathOn(q, startPos, endPos, path, maxStraight)

SpecShared == InitShared /\ [][NextShared]_vars

\* what the caller of q reads in the result it holds
Held(q) ==
  IF result[q].kind = "table" THEN <<result[q], sp.mod[result[q].of]>>
  ELSE IF result[q].kind = "path"
  THEN <<result[q], [i \in 1..result[q].count |->
                       <<sp.inst[q].pos[i], sp.inst[q].flags[i], sp.inst[q].refs[i]>>]>>
  ELSE <<result[q]>>

\* C24: two NavMeshQuery instances over one NavMesh share no mutable state:
\* a call on one instance writes no storage that calls on the other read or
\* write (no module-level buffer, nothing of the other instance), and it
\* leaves what the other instance's caller holds as it was.
C24_InstancesShareNothing ==
  [][\A q \in Queries :
       (steps' = steps + 1 /\ args'.q = q)
         => /\ sp'.mod = sp.mod
            /\ \A o \in Queries \ {q} :
                 /\ sp'.inst[o] = sp.inst[o]
                 /\ Held(o)' = Held(o)]_vars

\* C24, the buffers left aside: a call on one instance leaves what the
\* other instance's caller holds as it was.
C24_OthersResultKept ==
  [][\A q \in Queries :
       (steps' = steps + 1 /\ args'.q = q)
         => \A o \in Queries \ {q} : Held(o)' = Held(o)]_vars

====
